---- MODULE Spec2Model ----
(***************************************************************************)
(* Huawei SmartLogger / SUN2000 Modbus acquisition engine.                 *)
(*                                                                         *)
(* Seven specifications share the Connection Manager                       *)
(* (HuaweiModbusClient, src/nodes/utils/modbus-utils.ts):                  *)
(*   Spec       the Device Data Reader (readMultipleInverters /            *)
(*              readInverterData): its reads on the one shared connection  *)
(*              that Sun2000.execute opens for specifyDevices and for      *)
(*              readFromDiscovery, and the records it builds;              *)
(*   SpecPar    parallel discovery (discoverAllDevicesParallel and         *)
(*              discoverInvertersParallel) with one dedicated connection   *)
(*              per scanned unit;                                          *)
(*   SpecConn   the lifecycle of one HuaweiModbusClient: connect(),        *)
(*              disconnect() and reads awaited one after the other;        *)
(*   SpecPv     readPVStrings called with a supplied or a detected string  *)
(*              count.                                                     *)
(*   SpecSeq    sequential discovery (discoverAllDevices and               *)
(*              discoverInverters), one unit after the other on the        *)
(*              caller's connection;                                       *)
(*   SpecParAny parallel discovery with any concurrency, 0 and negative    *)
(*              included, the loop taking its steps fairly;                *)
(*   SpecGw     the gateway reads (SmartLoggerFunctions.readSystemData,    *)
(*              readPowerData, readEnvironmentalData, readAlarmData),      *)
(*              every read of the chosen categories started at once, and   *)
(*              the scans of readAll and discoverDevices on the same       *)
(*              connection.                                                *)
(* SpecCodec applies the pure functions of the Codec to bounded inputs.    *)
(* Register data is a sequence of 16-bit words, a string a sequence of     *)
(* character codes.                                                        *)
(***************************************************************************)
EXTENDS Integers, Sequences, FiniteSets, TLC

VARIABLES
    client,   \* client id -> [unitId, retries, activeId, isConnected, isOpen]
    calls,    \* call id <<client, slot>> -> readHoldingRegisters activation
    rd,       \* Device Data Reader: position in its request schedule
              \* (SpecConn: the caller's operations; SpecPv: readPVStrings;
              \* SpecCodec: the application)
    par,      \* parallel discovery: loop state of the scan
    task      \* parallel discovery: unit id -> state of its batch task

vars == <<client, calls, rd, par, task>>

\* ------------------------------------------------------------------ bounds
\* config.retries of the connections of the model
MaxRetries == 1

\* ------------------------------------------------------------- constants
\* the caller's shared connection (not a unit id)
Main == -1
\* "unitId === undefined"
NoUnit == -2
\* unit id of the shared connection that Sun2000.execute configures
RemapUnit == 0

Min(a, b) == IF a <= b THEN a ELSE b

Max(a, b) == IF a >= b THEN a ELSE b

\* The elements of a sequence
Range(s) == {s[i] : i \in DOMAIN s}

\* ---------------------------------------------------------- Register Codec
\* .replace(/\0+$/, ''): the string up to its last character that is not NUL
StripTrailingNul(s) ==
    LET kept == {n \in 0..Len(s) : n = 0 \/ s[n] # 0}
    IN SubSeq(s, 1, CHOOSE n \in kept : \A m \in kept : m <= n)

\* two characters of each register, high byte first
RegisterChars(registers) ==
    [i \in 1..(2 * Len(registers)) |->
        IF i % 2 = 1 THEN (registers[(i + 1) \div 2] \div 256) % 256
        ELSE registers[i \div 2] % 256]

\* faulty variant: trailing NULs stripped before the cut to maxLength
decodeStripThenCut(registers, maxLength) ==
    LET stripped == StripTrailingNul(RegisterChars(registers))
    IN SubSeq(stripped, 1, Min(maxLength, Len(stripped)))

decodeStringRegisters(registers, maxLength) ==
    StripTrailingNul(SubSeq(RegisterChars(registers), 1,
                            Min(maxLength, 2 * Len(registers))))

\* faulty variant: 0xFFFF subtracted instead of 0x10000
toSignedInt16Short(value) == IF value >= 32768 THEN value - 65535 ELSE value

\* value >= 0x8000 ? value - 0x10000 : value
toSignedInt16(value) == IF value >= 32768 THEN value - 65536 ELSE value

\* (lowWord << 16) | highWord on 16-bit words: << and | work on 32-bit signed
\* integers, so a low word of 0x8000 and above gives a negative number
combineU32RegistersLE(lowWord, highWord) ==
    (toSignedInt16(lowWord % 65536) * 65536) + (highWord % 65536)

\* faulty variant: the sign bit of the low word is dropped
combineI32Masked(lowWord, highWord) ==
    ((lowWord % 32768) * 65536) + (highWord % 65536)

\* combined = (lowWord << 16) | highWord, then
\* combined >= 0x80000000 ? combined - 0x100000000 : combined; combined is a
\* 32-bit signed integer, so the first branch is never taken
combineI32RegistersLE(lowWord, highWord) ==
    LET combined == (toSignedInt16(lowWord % 65536) * 65536) + (highWord % 65536)
    IN IF combined \div 65536 >= 32768
       THEN (combined - (32768 * 65536)) - (32768 * 65536)
       ELSE combined

\* raw / gain, kept as the pair
Scaled(raw, gain) == [raw |-> raw, gain |-> gain]

\* ------------------------------------------------------ Connection Manager
\* new HuaweiModbusClient(config): setID(config.unitId), not connected
NewClient(unitId, retries) ==
    [unitId |-> unitId, retries |-> retries, activeId |-> unitId,
     isConnected |-> FALSE, isOpen |-> FALSE]

\* connect(): connectTCP resolved / rejected
Connected(cl) == [cl EXCEPT !.isConnected = TRUE, !.isOpen = TRUE]

ConnectFailed(cl) == [cl EXCEPT !.isConnected = FALSE]

\* faulty variant: the flag alone, without the state of the port
isConnectedFlag(cl) == cl.isConnected

\* this.isConnected && this.client.isOpen
isClientConnected(cl) == cl.isConnected /\ cl.isOpen

\* the registers of the name of the device, two characters in each:
\* "SMARTLOGGER" for the device at unit 13, which is not an inverter, and
\* "SUN2000" for the others
NameWords(unit) ==
    IF unit = 13 THEN <<21325, 16722, 21580, 20295, 18245, 21000>>
    ELSE <<21333, 20018, 12336, 12288>>

\* what the device with unit id `unit` may answer to a read of `count`
\* registers at `address`: a name block that is all NUL or holds the name of
\* the device, the Online status word, alarm registers with no alarm or with
\* alarms, and elsewhere words that tell the devices apart
ResponseData(unit, address, count) ==
    IF address = 65524
    THEN {[i \in 1..count |-> 0],
          [i \in 1..count |->
              IF i <= Len(NameWords(unit)) THEN NameWords(unit)[i] ELSE 0]}
    ELSE IF address = 65534
    THEN {<<45057>>}
    ELSE IF address = 32008
    THEN {[i \in 1..count |-> 0], [i \in 1..count |-> unit]}
    ELSE IF address = 30071
    THEN {<<0>>, <<3>>, <<12>>, <<30>>}
    ELSE {[i \in 1..count |-> unit]}

\* the unit id a call's requests should reach
TargetUnit(c, k) == IF c.unit = NoUnit THEN client[k].unitId ELSE c.unit

\* readHoldingRegisters on the connection cl, from "Set unit ID if provided"
\* to the first await: the loop for (attempt = 0; attempt <= retries; ...)
\* sends the first attempt, or with negative retries makes no attempt at all
\* and the call returns 'Failed after ... attempts' with the unit id reset
FirstAttempt(c, cl) ==
    IF 0 <= cl.retries
    THEN [c EXCEPT !.pc = "wait", !.attempt = 0,
                   !.sentTo = IF c.unit = NoUnit THEN cl.activeId ELSE c.unit]
    ELSE [c EXCEPT !.pc = "ret", !.result = "exhausted",
                   !.idAtReturn = IF c.unit = NoUnit THEN cl.activeId ELSE cl.unitId]

\* the unit id the connection cl is left with there: by setID(unitId), or by
\* setID(this.config.unitId) after a loop that made no attempt
IdAfterSet(c, cl) ==
    IF c.unit = NoUnit THEN cl.activeId
    ELSE IF 0 <= cl.retries THEN c.unit ELSE cl.unitId

\* the unit id the connection is left with by "Reset unit ID back to default"
IdAfterReset(c, k) == IF c.unit = NoUnit THEN client[k].activeId ELSE client[k].unitId

NewCall(name, address, count, unit) ==
    [name |-> name, address |-> address, count |-> count, unit |-> unit,
     pc |-> "new", attempt |-> 0, sentTo |-> NoUnit, result |-> "none",
     data |-> <<>>, from |-> NoUnit, idAtReturn |-> NoUnit]

\* A group of calls issued in one synchronous run (one call, or the calls of
\* one Promise.all) on client k: every call checks isClientConnected(), then
\* either awaits connect() or sets its unit id and sends its first attempt.
RECURSIVE StartGroup(_, _, _, _)
StartGroup(k, group, i, st) ==
    IF i > Len(group) THEN st
    ELSE LET c == group[i]
             up == isClientConnected(st.cl)
             started == IF up THEN FirstAttempt(c, st.cl)
                        ELSE [c EXCEPT !.pc = "conn"]
             cl2 == IF up THEN [st.cl EXCEPT !.activeId = IdAfterSet(c, st.cl)]
                    ELSE st.cl
         IN StartGroup(k, group, i + 1,
                       [cl |-> cl2, cs |-> st.cs @@ (<<k, i>> :> started)])

\* a call of client k has the id <<k, slot>>, slot being its place in the group
\* of reads that its caller awaits; a call whose caller has stopped waiting
\* for it (its Promise.all was rejected by a sibling) has <<k, slot, device>>
CallsOf(k) == {id \in DOMAIN calls : id[1] = k}

\* the calls of client k with the calls of `drop` removed and `add` added
WithCalls(drop, add) ==
    [id \in ((DOMAIN calls) \ drop) \cup DOMAIN add |->
        IF id \in DOMAIN add THEN add[id] ELSE calls[id]]

IssueGroup(k, group) ==
    LET st == StartGroup(k, group, 1, [cl |-> client[k], cs |-> <<>>])
    IN /\ client' = [client EXCEPT ![k] = st.cl]
       /\ calls' = WithCalls({id \in CallsOf(k) : Len(id) = 2}, st.cs)

\* faulty variant: no try/catch around the transport operations
CatchesNothing(site) == FALSE

\* the transport operations that run inside a try block whose catch handles the
\* rejection: connectTCP in connect(), client.readHoldingRegisters in the retry
\* loop, close() in disconnect()
Catches(site) == site \in {"connectTCP", "readHoldingRegisters", "close"}

\* faulty variant: the loop makes one attempt more
LastAttemptOneMore(attempt, retries) == ~(attempt <= retries)

\* for (attempt = 0; attempt <= retries; attempt++): `attempt` is the last one
LastAttempt(attempt, retries) == ~(attempt < retries)

\* connect() awaited inside readHoldingRegisters resolves: isConnected = true,
\* then the unit id is set and the first attempt is sent
AttemptConnected(id) ==
    /\ id \in DOMAIN calls
    /\ calls[id].pc = "conn"
    /\ LET k == id[1]
           c == calls[id]
       IN /\ client' = [client EXCEPT ![k] = [Connected(@) EXCEPT
                                          !.activeId = IdAfterSet(c, client[k])]]
          /\ calls' = [calls EXCEPT ![id] = FirstAttempt(c, client[k])]

ConnectOk(id) == AttemptConnected(id) /\ UNCHANGED <<rd, par, task>>

\* connect() fails: 'Failed to connect to Modbus device' is returned
ConnectRefused(id) ==
    /\ id \in DOMAIN calls
    /\ calls[id].pc = "conn"
    /\ LET k == id[1]
       IN /\ client' = [client EXCEPT ![k] = ConnectFailed(@)]
          /\ calls' = [calls EXCEPT
                  ![id].pc = "ret",
                  ![id].result = IF Catches("connectTCP") THEN "connfail" ELSE "raised",
                  ![id].idAtReturn = client[k].activeId]

ConnectFail(id) == ConnectRefused(id) /\ UNCHANGED <<rd, par, task>>

\* the transport answers with `words`: the unit id is reset and the data returned
AttemptSucceeded(id, words) ==
    /\ id \in DOMAIN calls
    /\ calls[id].pc = "wait"
    /\ LET k == id[1]
           c == calls[id]
       IN /\ client[k].isOpen
          /\ client' = [client EXCEPT ![k].activeId = IdAfterReset(c, k)]
          /\ calls' = [calls EXCEPT ![id].pc = "ret", ![id].result = "success",
                                    ![id].attempt = 0, ![id].sentTo = NoUnit,
                                    ![id].data = words,
                                    ![id].from = c.sentTo,
                                    ![id].idAtReturn = IdAfterReset(c, k)]

RespOk(id, words) ==
    /\ id \in DOMAIN calls
    /\ words \in ResponseData(calls[id].sentTo, calls[id].address, calls[id].count)
    /\ AttemptSucceeded(id, words)
    /\ UNCHANGED <<rd, par, task>>

\* the attempt fails (timeout, or a socket error that closes the port):
\* backoff if attempts are left, else reset the unit id and return failure
AttemptFailed(id, closes) ==
    /\ id \in DOMAIN calls
    /\ calls[id].pc = "wait"
    /\ LET k == id[1]
           c == calls[id]
           caught == Catches("readHoldingRegisters")
           last == LastAttempt(c.attempt, client[k].retries)
       IN /\ client' = [client EXCEPT
                  ![k].isOpen = IF closes THEN FALSE ELSE @,
                  ![k].activeId = IF caught /\ last THEN IdAfterReset(c, k) ELSE @]
          /\ calls' = [calls EXCEPT
                  ![id].pc = IF last \/ ~caught THEN "ret" ELSE "backoff",
                  ![id].attempt = IF last \/ ~caught THEN 0 ELSE @,
                  ![id].sentTo = IF last \/ ~caught THEN NoUnit ELSE @,
                  ![id].result = IF ~caught THEN "raised"
                                 ELSE IF last THEN "exhausted" ELSE @,
                  ![id].idAtReturn = IF ~caught THEN client[k].activeId
                                     ELSE IF last THEN IdAfterReset(c, k) ELSE @]

RespFail(id, closes) == AttemptFailed(id, closes) /\ UNCHANGED <<rd, par, task>>

\* the backoff timer fires: the next attempt is sent with the unit id the
\* connection has now
AttemptRetried(id) ==
    /\ id \in DOMAIN calls
    /\ calls[id].pc = "backoff"
    /\ LET k == id[1]
           c == calls[id]
       IN /\ calls' = [calls EXCEPT ![id].pc = "wait", ![id].attempt = c.attempt + 1,
                                    ![id].sentTo = client[k].activeId]
    /\ UNCHANGED client

Retry(id) == AttemptRetried(id) /\ UNCHANGED <<rd, par, task>>

\* disconnect(): close() and isConnected = false
Disconnected(cl) == [cl EXCEPT !.isConnected = FALSE, !.isOpen = FALSE]

\* close() raised inside disconnect(): isConnected = false is skipped
CloseRaised(cl, stillOpen) == [cl EXCEPT !.isOpen = @ /\ stillOpen]

\* disconnect(): try { close(); isConnected = false } catch {}, where close()
\* returns, or raises leaving the port open or closed
disconnect(cl, closeRaises, stillOpen) ==
    IF closeRaises THEN CloseRaised(cl, stillOpen) ELSE Disconnected(cl)

\* the reads of client k that its caller awaits (one read, or a Promise.all),
\* and whether they have all returned
Awaited(k) == {id \in CallsOf(k) : Len(id) = 2}

AllReturned(k) == \A id \in Awaited(k) : calls[id].pc = "ret"

\* "undefined": a property that is not set
Undefined == "undefined"

\* the error message of a call that returned failure
ErrorMessage(c) ==
    CASE c.result = "connfail" -> "Failed to connect to Modbus device"
      [] c.result = "exhausted" -> "Failed after ${retries + 1} attempts: ${lastError}"
      [] OTHER -> Undefined

\* the ModbusReadResult that a returned readHoldingRegisters call hands back
readHoldingRegistersResult(c) ==
    IF c.result = "success" THEN [success |-> TRUE, data |-> c.data, error |-> Undefined]
    ELSE [success |-> FALSE, data |-> <<>>, error |-> ErrorMessage(c)]

\* readString / readU16 / readI16 / readU32 / readI32 on a returned
\* readHoldingRegisters call
readStringResult(c, maxLength) ==
    LET result == readHoldingRegistersResult(c)
    IN IF ~result.success THEN [success |-> FALSE, data |-> <<>>, error |-> result.error]
       ELSE [success |-> TRUE, data |-> decodeStringRegisters(result.data, maxLength),
             error |-> Undefined]

readU16Result(c) ==
    LET result == readHoldingRegistersResult(c)
    IN IF ~result.success \/ Len(result.data) = 0
       THEN [success |-> FALSE, data |-> 0, error |-> result.error]
       ELSE [success |-> TRUE, data |-> result.data[1], error |-> Undefined]

readI16Result(c) ==
    LET result == readU16Result(c)
    IN IF ~result.success THEN result
       ELSE [success |-> TRUE, data |-> toSignedInt16(result.data), error |-> Undefined]

readU32Result(c) ==
    LET result == readHoldingRegistersResult(c)
    IN IF ~result.success \/ Len(result.data) < 2
       THEN [success |-> FALSE, data |-> 0, error |-> result.error]
       ELSE [success |-> TRUE, data |-> combineU32RegistersLE(result.data[1], result.data[2]),
             error |-> Undefined]

readI32Result(c) ==
    LET result == readHoldingRegistersResult(c)
    IN IF ~result.success \/ Len(result.data) < 2
       THEN [success |-> FALSE, data |-> 0, error |-> result.error]
       ELSE [success |-> TRUE, data |-> combineI32RegistersLE(result.data[1], result.data[2]),
             error |-> Undefined]

\* ------------------------------------------------- address list parsing
\* A string is a sequence of characters.  A number is a double: NaN, or a
\* sign with Infinity or with the decimal digits of its value, so that 1.5
\* is [neg |-> FALSE, inf |-> FALSE, whole |-> <<1>>, frac |-> <<5>>].

NaN == [nan |-> TRUE]

DigitChars == <<"0", "1", "2", "3", "4", "5", "6", "7", "8", "9">>

DigitValue(ch) == (CHOOSE d \in 1..10 : DigitChars[d] = ch) - 1

IsDigit(ch) == \E d \in 1..10 : DigitChars[d] = ch

\* String.prototype.includes
Includes(str, ch) == \E i \in 1..Len(str) : str[i] = ch

\* String.prototype.split: the pieces between the separators, empty pieces kept
Split(str, sep) ==
    LET at == {i \in 1..Len(str) : str[i] = sep}
        SepPos(k) == CHOOSE p \in at : Cardinality({q \in at : q < p}) = k - 1
        n == Cardinality(at) + 1
    IN [k \in 1..n |->
           SubSeq(str, IF k = 1 THEN 1 ELSE SepPos(k - 1) + 1,
                       IF k = n THEN Len(str) ELSE SepPos(k) - 1)]

\* the characters trim() and Number() strip: WhiteSpace and LineTerminator
\* of ECMAScript.  The characters from U+2000 on are written as their
\* escapes, and so may the four before them
WhiteSpace ==
    {" ", "\t", "\n", "\r", "\f", "", " ", "﻿", " "}
    \cup {"\\u000b", "\\u00a0", "\\ufeff", "\\u1680", "\\u2000", "\\u2001",
          "\\u2002", "\\u2003", "\\u2004", "\\u2005", "\\u2006", "\\u2007",
          "\\u2008", "\\u2009", "\\u200a", "\\u2028", "\\u2029", "\\u202f",
          "\\u205f", "\\u3000"}

\* String.prototype.trim
Trim(str) ==
    LET inked == {i \in 1..Len(str) : str[i] \notin WhiteSpace}
    IN IF inked = {} THEN <<>>
       ELSE SubSeq(str, CHOOSE i \in inked : \A j \in inked : i <= j,
                        CHOOSE i \in inked : \A j \in inked : j <= i)

\* the value of a sequence of decimal digits
DigitsValue(digits) ==
    LET F[i \in 0..Len(digits)] ==
            IF i = 0 THEN 0 ELSE (F[i - 1] * 10) + DigitValue(digits[i])
    IN F[Len(digits)]

\* the number of zeros ds starts with, and the number it ends with
LeadingZeros(ds) ==
    IF \A i \in 1..Len(ds) : ds[i] = 0 THEN Len(ds)
    ELSE (CHOOSE n \in 1..Len(ds) : ds[n] # 0 /\ \A m \in 1..(n - 1) : ds[m] = 0) - 1

TrailingZeros(ds) ==
    IF \A i \in 1..Len(ds) : ds[i] = 0 THEN Len(ds)
    ELSE Len(ds) - (CHOOSE n \in 1..Len(ds) :
                       ds[n] # 0 /\ \A m \in (n + 1)..Len(ds) : ds[m] = 0)

\* digits without their leading zeros, and without their trailing zeros
DropLeadingZeros(ds) == SubSeq(ds, LeadingZeros(ds) + 1, Len(ds))

DropTrailingZeros(ds) == SubSeq(ds, 1, Len(ds) - TrailingZeros(ds))

\* digit i of ds filled with zeros
DigitAt(ds, i) == IF i >= 1 /\ i <= Len(ds) THEN ds[i] ELSE 0

\* the first place up to n where ds and es, filled with zeros, differ, or
\* n + 1
FirstDifference(ds, es, n) ==
    IF \A i \in 1..n : DigitAt(ds, i) = DigitAt(es, i) THEN n + 1
    ELSE CHOOSE m \in 1..n :
            /\ DigitAt(ds, m) # DigitAt(es, m)
            /\ \A j \in 1..(m - 1) : DigitAt(ds, j) = DigitAt(es, j)

\* ds >= es * 10^(n - Len(es)), for decimal digits ds without leading zeros
DigitsGeq(ds, es, n) ==
    \/ Len(ds) > n
    \/ /\ Len(ds) = n
       /\ \E m \in {FirstDifference(ds, es, n)} : m > n \/ ds[m] > DigitAt(es, m)

RECURSIVE NatDigits(_)
\* the decimal digits of a natural number, none for 0
NatDigits(n) == IF n = 0 THEN <<>> ELSE Append(NatDigits(n \div 10), n % 10)

\* the element of a set of one element.  {F(x) : x \in {e}} has e worked
\* out once, before F
The(set) == CHOOSE y \in set : TRUE

\* Long numbers are worked on four digits at a time: ds as numbers below
\* 10000, the first of them for the leading one to four digits
LimbCount(ds) == (Len(ds) + 3) \div 4

ToLimbs(ds) ==
    [j \in 1..LimbCount(ds) |->
        (DigitAt(ds, Len(ds) - (4 * (LimbCount(ds) - j)) - 3) * 1000)
        + (DigitAt(ds, Len(ds) - (4 * (LimbCount(ds) - j)) - 2) * 100)
        + (DigitAt(ds, Len(ds) - (4 * (LimbCount(ds) - j)) - 1) * 10)
        + DigitAt(ds, Len(ds) - (4 * (LimbCount(ds) - j)))] \o <<>>

ToDigits(limbs) ==
    DropLeadingZeros([i \in 1..(4 * Len(limbs)) |->
                         (limbs[((i - 1) \div 4) + 1] \div (10 ^ (3 - ((i - 1) % 4)))) % 10]
                     \o <<>>)

\* a carry comes into place j of the sums s (each below 20000): the nearest
\* place after j that is not 9999 is 10000 or more
Carry(s, j) ==
    /\ j < Len(s)
    /\ IF s[j + 1] # 9999 THEN s[j + 1] >= 10000
       ELSE \E k \in (j + 2)..Len(s) :
               s[k] >= 10000 /\ \A t \in (j + 1)..(k - 1) : s[t] = 9999

\* the sums with their carries taken over
WithCarries(s) ==
    [j \in 1..Len(s) |-> (s[j] + (IF Carry(s, j) THEN 1 ELSE 0)) % 10000] \o <<>>

Carried(s) ==
    The({IF Carry(s, 0) THEN <<1>> \o w ELSE IF w[1] = 0 THEN Tail(w) ELSE w :
            w \in {WithCarries(s)}})

\* place by place, the low part of one product and the high part of the next
Sums(limbs, m, a) ==
    [j \in 1..(Len(limbs) + 1) |->
        (IF j >= 2 THEN (limbs[j - 1] * m) % 10000 ELSE 0)
        + (IF j <= Len(limbs) THEN (limbs[j] * m) \div 10000 ELSE 0)
        + (IF j = Len(limbs) + 1 THEN a ELSE 0)] \o <<>>

\* limbs * m + a, for m up to 10000 and a below 10000
LimbMulAdd(limbs, m, a) ==
    The({Carried(s) : s \in {Sums(x, m, a) : x \in {limbs}}})

\* the decimal digits of value(ds) * m + a
MulAdd(ds, m, a) ==
    The({ToDigits(y) : y \in {LimbMulAdd(x, m, a) : x \in {ToLimbs(ds)}}})

RECURSIVE LimbsTimesPow(_, _, _, _)
\* limbs * base^c, `most` factors at a time
LimbsTimesPow(limbs, base, c, most) ==
    IF c = 0 THEN limbs
    ELSE IF c <= most THEN LimbMulAdd(limbs, base ^ c, 0)
    ELSE The({LimbsTimesPow(x, base, d, most) :
                 x \in {LimbsTimesPow(limbs, base, c \div 2, most)},
                 d \in {c - (c \div 2)}})

\* the digits of value(ds) * base^c, for base 2 (2^13 at a time) and base 5
\* (5^5 at a time).  value(ds) * 5^c is value(ds) / 2^c with c more decimal
\* places
TimesPow(ds, base, c) ==
    The({ToDigits(y) :
            y \in {LimbsTimesPow(x, base, c, IF base = 2 THEN 13 ELSE 5) :
                      x \in {ToLimbs(ds)}}})

\* 2^52 and 2^53: a double carries 53 bits
TwoTo52 == <<4, 5, 0, 3, 5, 9, 9, 6, 2, 7, 3, 7, 0, 4, 9, 6>>

TwoTo53 == <<9, 0, 0, 7, 1, 9, 9, 2, 5, 4, 7, 4, 0, 9, 9, 2>>

\* of the number ds / 10^places, ds without leading zeros: the digits of the
\* whole part and those after the point
WholeDigits(ds, places) ==
    IF Len(ds) <= places THEN <<>> ELSE SubSeq(ds, 1, Len(ds) - places)

FracDigits(ds, places) ==
    IF Len(ds) >= places THEN SubSeq(ds, Len(ds) - places + 1, Len(ds))
    ELSE [i \in 1..(places - Len(ds)) |-> 0] \o ds

\* the bits a number of at least 2^53 can be shifted down by, and a number
\* below 2^52 up by, as its decimal digits show: 10^n lies between 2^(3.321 n)
\* and 2^(3.322 n)
BitsDown(ds, places) == Max(1, (((Len(ds) - places - 1) * 3321) \div 1000) - 52)

BitsUp(ds, places) ==
    Max(1, 53 - (IF Len(ds) > places
                 THEN (((Len(ds) - places) * 3322) \div 1000) + 1
                 ELSE -(((places - Len(ds)) * 3321) \div 1000)))

\* n is [digits, places, s]: the number digits / 10^places, which is 2^s
\* times the number to round.  Its whole part has the 53 bits of a double,
\* or s is 1074, the bits after the point of the smallest doubles
IsNormal(n) ==
    \E w \in {WholeDigits(n.digits, n.places)} :
        /\ ~DigitsGeq(w, TwoTo53, 16)
        /\ DigitsGeq(w, TwoTo52, 16) \/ n.s = 1074

\* n shifted towards 53 bits: down from 2^53 on, and up otherwise
Shift(n) ==
    IF DigitsGeq(WholeDigits(n.digits, n.places), TwoTo53, 16)
    THEN The({[digits |-> TimesPow(n.digits, 5, c), places |-> n.places + c,
               s |-> n.s - c] :
                 c \in {BitsDown(n.digits, n.places)}})
    ELSE The({[digits |-> TimesPow(n.digits, 2, c), places |-> n.places,
               s |-> n.s + c] :
                 c \in {Min(BitsUp(n.digits, n.places), 1074 - n.s)}})

RECURSIVE Normalised(_)
Normalised(n) ==
    IF IsNormal(n) THEN n ELSE The({Normalised(next) : next \in {Shift(n)}})

\* round to nearest, ties to even: whole part w and fraction f
RoundsUp(w, f) ==
    /\ f # <<>>
    /\ \/ f[1] > 5
       \/ /\ f[1] = 5
          /\ \/ Len(DropTrailingZeros(f)) > 1
             \/ (w # <<>> /\ w[Len(w)] % 2 = 1)

NearestInteger(w, f) == IF RoundsUp(w, f) THEN MulAdd(w, 1, 1) ELSE w

Zero(neg) == [neg |-> neg, inf |-> FALSE, whole |-> <<>>, frac |-> <<>>]

Infinite(neg) == [neg |-> neg, inf |-> TRUE, whole |-> <<>>, frac |-> <<>>]

\* the decimal ds / 10^places as a number; from 2^1024 on it is Infinity
AsNumber(neg, ds, places) ==
    IF Len(ds) - places >= 309
       /\ DigitsGeq(WholeDigits(ds, places), TimesPow(<<1>>, 2, 1024), 309)
    THEN Infinite(neg)
    ELSE [neg |-> neg, inf |-> FALSE, whole |-> WholeDigits(ds, places),
          frac |-> DropTrailingZeros(FracDigits(ds, places))]

\* the double m / 2^s
Double(neg, m, s) ==
    The({AsNumber(neg, x, Max(s, 0)) :
            x \in {IF s >= 0 THEN TimesPow(m, 5, s) ELSE TimesPow(m, 2, -s)}})

\* the double nearest to the number that `normal` is the normalised form of
Rounded(neg, normal) ==
    The({Double(neg, m, normal.s) :
            m \in {NearestInteger(WholeDigits(normal.digits, normal.places),
                                  FracDigits(normal.digits, normal.places))}})

\* the double nearest to w.f, w without leading and f without trailing zeros
Nearest(neg, w, f) ==
    IF f = <<>> /\ ~DigitsGeq(w, TwoTo53, 16)
    THEN [neg |-> neg, inf |-> FALSE, whole |-> w, frac |-> f]
    ELSE IF Len(w) > 310 THEN Infinite(neg)
    ELSE IF w = <<>> /\ LeadingZeros(f) >= 400 THEN Zero(neg)
    ELSE The({Rounded(neg, normal) :
                 normal \in {Normalised([digits |-> DropLeadingZeros(w \o f),
                                         places |-> Len(f), s |-> 0])}})

\* A number is NaN, or a sign with Infinity or with the decimal digits of its
\* whole part (no leading zeros) and of its fraction (no trailing zeros): the
\* decimal expansion of the double nearest to whole.frac.  A whole number
\* below 2^53 is a double; 10^310 and above is Infinity and below 10^-400
\* is 0.
Finite(neg, whole, frac) ==
    The({Nearest(neg, w, f) : w \in {DropLeadingZeros(whole)},
                              f \in {DropTrailingZeros(frac)}})

\* a literal as it is written: its sign and the digits before and after the
\* point
Written(neg, whole, frac) == [neg |-> neg, inf |-> FALSE, whole |-> whole, frac |-> frac]

\* 0x / 0o / 0b literals: the digits after the prefix in their base
NonDecimal(t) ==
    LET base == CASE t[2] \in {"x", "X"} -> 16
                  [] t[2] \in {"o", "O"} -> 8
                  [] t[2] \in {"b", "B"} -> 2
        lower == <<"0", "1", "2", "3", "4", "5", "6", "7", "8", "9",
                   "a", "b", "c", "d", "e", "f">>
        upper == <<"0", "1", "2", "3", "4", "5", "6", "7", "8", "9",
                   "A", "B", "C", "D", "E", "F">>
        IsIn(ch) == \E d \in 1..base : lower[d] = ch \/ upper[d] = ch
        Value(ch) == (CHOOSE d \in 1..base : lower[d] = ch \/ upper[d] = ch) - 1
        V[i \in 2..Len(t)] == IF i = 2 THEN <<>> ELSE MulAdd(V[i - 1], base, Value(t[i]))
    IN IF Len(t) < 3 \/ \E i \in 3..Len(t) : ~IsIn(t[i]) THEN NaN
       ELSE Written(FALSE, V[Len(t)], <<>>)

\* the place of the first of the characters `chars` in str, or Len(str) + 1
FirstOf(str, chars) ==
    LET at == {i \in 1..Len(str) : str[i] \in chars}
    IN IF at = {} THEN Len(str) + 1 ELSE CHOOSE i \in at : \A j \in at : i <= j

AllDigits(str) == \A i \in 1..Len(str) : IsDigit(str[i])

Digits(str) == [i \in 1..Len(str) |-> DigitValue(str[i])]

isNaN(x) == "nan" \in DOMAIN x

\* digits with at most one decimal point and a digit on one side of it at
\* least
MantissaDigits(mant) ==
    LET dot == FirstOf(mant, {"."})
        whole == SubSeq(mant, 1, dot - 1)
        frac == SubSeq(mant, dot + 1, Len(mant))
    IN IF AllDigits(whole) /\ AllDigits(frac) /\ Len(whole) + Len(frac) > 0
       THEN [whole |-> Digits(whole), frac |-> Digits(frac)]
       ELSE NaN

\* the exponent part after e or E: an optional sign and digits.  `most` is
\* over 400 more than the digits of the mantissa: a mantissa of that many
\* digits that is not 0 is 10^400 or more, so Infinity, with every exponent
\* from `most` on, and below 10^-400, so 0, with every exponent from -most
\* down
ExponentValue(expo, most) ==
    LET signed == expo # <<>> /\ expo[1] \in {"+", "-"}
        digits == IF signed THEN Tail(expo) ELSE expo
        size == IF ~AllDigits(digits) THEN <<>> ELSE DropLeadingZeros(Digits(digits))
    IN IF digits = <<>> \/ ~AllDigits(digits) THEN NaN
       ELSE [value |-> (IF expo[1] = "-" THEN -1 ELSE 1)
                       * (IF Len(size) > Len(NatDigits(most)) THEN most
                          ELSE Min(DigitsValue(digits), most))]

\* the digits `all` with the decimal point after the first `point` of them
Shifted(neg, all, point) ==
    Written(neg,
            [i \in 1..Max(point, 0) |-> IF i <= Len(all) THEN all[i] ELSE 0] \o <<>>,
            IF point >= Len(all) THEN <<>>
            ELSE IF point >= 0 THEN SubSeq(all, point + 1, Len(all))
            ELSE [i \in 1..(-point) |-> 0] \o all)

\* decimal literals without their sign: a mantissa and an optional exponent
\* part
Decimal(u, neg) ==
    LET e == FirstOf(u, {"e", "E"})
        m == MantissaDigits(SubSeq(u, 1, e - 1))
        x == IF e > Len(u) THEN [value |-> 0]
             ELSE ExponentValue(SubSeq(u, e + 1, Len(u)), e + 400)
    IN IF isNaN(m) \/ isNaN(x) THEN NaN
       ELSE Shifted(neg, m.whole \o m.frac, Len(m.whole) + x.value)

\* the literal a trimmed string is: the empty string is 0, then a literal
\* with a prefix, a signed Infinity or a signed decimal literal; everything
\* else is NaN
Literal(t) ==
    LET signed == t # <<>> /\ t[1] \in {"+", "-"}
        neg == t # <<>> /\ t[1] = "-"
        u == IF signed THEN Tail(t) ELSE t
    IN IF t = <<>> THEN Written(FALSE, <<>>, <<>>)
       ELSE IF Len(t) >= 2 /\ t[1] = "0"
               /\ t[2] \in {"x", "X", "o", "O", "b", "B"}
       THEN NonDecimal(t)
       ELSE IF u = <<"I", "n", "f", "i", "n", "i", "t", "y">>
       THEN Infinite(neg)
       ELSE Decimal(u, neg)

\* Number(str): white space is trimmed, and the value of the literal is the
\* double nearest to it
Number(str) ==
    The({IF isNaN(lit) \/ lit.inf THEN lit
         ELSE Finite(lit.neg, lit.whole, lit.frac) :
            lit \in {Literal(Trim(str))}})

\* f <= g for fractional parts
FracLeq(f, g) ==
    \E m \in {FirstDifference(f, g, Len(f) + Len(g))} :
        m > Len(f) + Len(g) \/ DigitAt(f, m) < DigitAt(g, m)

\* x <= y for numbers that are not NaN
NumberLeq(x, y) ==
    LET IsZero(n) == ~n.inf /\ n.whole = <<>> /\ n.frac = <<>>
        MagLeq(a, b) ==
            IF b.inf THEN TRUE
            ELSE IF a.inf THEN FALSE
            ELSE IF a.whole # b.whole THEN ~DigitsGeq(a.whole, b.whole, Len(b.whole))
            ELSE FracLeq(a.frac, b.frac)
    IN IF IsZero(x) /\ IsZero(y) THEN TRUE
       ELSE IF x.neg /\ ~y.neg THEN TRUE
       ELSE IF ~x.neg /\ y.neg THEN FALSE
       ELSE IF x.neg THEN MagLeq(y, x)
       ELSE MagLeq(x, y)

\* an address the loops push: its whole part and the digits of its fraction
Address(int, frac) == [int |-> int, frac |-> frac]

\* x <= y for addresses
Leq(x, y) == x.int < y.int \/ (x.int = y.int /\ FracLeq(x.frac, y.frac))

\* i >= 1 && i <= 247
ValidAddress(x) == x.int >= 1 /\ Leq(x, Address(247, <<>>))

\* a number that is not negative as an address; 1000 stands for every whole
\* part of more than three digits and for Infinity
AsAddress(n) ==
    IF n.inf \/ Len(n.whole) > 3 THEN Address(1000, <<>>)
    ELSE Address(LET F[i \in 0..Len(n.whole)] ==
                         IF i = 0 THEN 0 ELSE (F[i - 1] * 10) + n.whole[i]
                     IN F[Len(n.whole)],
                 n.frac)

\* the largest whole part of the doubles that have as many bits before the
\* point as w has, 1 <= w <= 247
BinadeTop(w) == (2 ^ ((CHOOSE e \in 0..7 : 2 ^ e <= w /\ w < 2 ^ (e + 1)) + 1)) - 1

\* the whole part that i++ comes to without rounding, from the whole part w
Reach(w) == IF w = 0 THEN 0 ELSE BinadeTop(w)

RECURSIVE Pushed(_, _)
\* the addresses the loop pushes from i on: i++ is i + 1 as long as the
\* bits before the point stay as many, and the double nearest to i + 1 when
\* they become more (and from below 1).  Beyond 247 the loop pushes nothing
\* more, and it ends when the end is below 2^53
Pushed(i, end) ==
    IF ~NumberLeq(i, end) \/ AsAddress(i).int >= 248 THEN {}
    ELSE The({{x \in {Address(k, i.frac) : k \in w..Reach(w)} :
                  ValidAddress(x) /\ Leq(x, AsAddress(end))}
              \cup Pushed(next, end) :
                 w \in {AsAddress(i).int},
                 next \in {Finite(FALSE, NatDigits(Reach(AsAddress(i).int) + 1),
                                  i.frac)}})

\* the loop for (i = start; i <= end; i++) never ends: from 2^53 on, and at
\* Infinity, i++ leaves i as it is
NeverEnds == [loop |-> "never ends"]

\* for (let i = start; i <= end; i++) if (i >= 1 && i <= 247) push(i).  From
\* a whole start the loop pushes whole numbers; from another one every i++
\* is rounded
Loop(start, end) ==
    IF isNaN(start) \/ isNaN(end) THEN {}
    ELSE IF ~NumberLeq(start, end) THEN {}
    ELSE IF end.inf \/ DigitsGeq(end.whole, TwoTo53, 16) THEN {NeverEnds}
    ELSE IF start.frac = <<>>
    THEN {Address(i, <<>>) :
             i \in Max(1, AsAddress(start).int)..Min(AsAddress(end).int, 247)}
    ELSE Pushed(start, end)

\* what one part of the list pushes: the valid i of a range, or the valid
\* single address.  The bounds of a range are pieces between "-", so they
\* carry no minus sign
PartAddresses(part) ==
    IF Includes(part, "-")
    THEN The({Loop(bounds[1], bounds[2]) :
                 bounds \in {[k \in 1..Len(Split(part, "-")) |->
                                 Number(Split(part, "-")[k])] \o <<>>}})
    ELSE The({IF ~isNaN(addr) /\ ~addr.neg /\ ValidAddress(AsAddress(addr))
              THEN {AsAddress(addr)} ELSE {} :
                 addr \in {Number(part)}})

\* [...new Set(addresses)].sort((a, b) => a - b)
RECURSIVE SortedAddresses(_)
SortedAddresses(set) ==
    IF set = {} THEN <<>>
    ELSE LET ints == {x.int : x \in set}
             lo == CHOOSE i \in ints : \A j \in ints : i <= j
             hi == CHOOSE i \in ints : \A j \in ints : j <= i
             mid == (lo + hi) \div 2
         IN IF lo = hi
            THEN [k \in 1..Cardinality(set) |->
                     CHOOSE x \in set :
                        Cardinality({y \in set : y # x /\ Leq(y, x)}) = k - 1]
            ELSE SortedAddresses({x \in set : x.int <= mid})
                 \o SortedAddresses({x \in set : x.int > mid})

\* split(',').map(s => s.trim()), the addresses of every part, sorted set;
\* <<NeverEnds>> when a range of the list loops for ever
parseAddressList(addressString) ==
    The({IF {NeverEnds} \in pushed THEN <<NeverEnds>> ELSE SortedAddresses(UNION pushed) :
            pushed \in {{PartAddresses(Trim(Split(addressString, ",")[k])) :
                            k \in 1..Len(Split(addressString, ","))}}})

\* the same steps on the discovery range string
parseDiscoveryRange(rangeString) ==
    The({IF {NeverEnds} \in pushed THEN <<NeverEnds>> ELSE SortedAddresses(UNION pushed) :
            pushed \in {{PartAddresses(Trim(Split(rangeString, ",")[k])) :
                            k \in 1..Len(Split(rangeString, ","))}}})

\* ------------------------------------------- Device Data Reader: requests
getRemappedRegister(deviceAddress, offset) == 51000 + (25 * (deviceAddress - 1)) + offset

\* faulty variant: a stride of 24 registers per device
baseAddressStride24(inverterUnitId) == 51000 + (24 * (inverterUnitId - 1))

\* 51000 + (25 * (inverterUnitId - 1))
calculateInverterBaseAddress(inverterUnitId) == 51000 + (25 * (inverterUnitId - 1))

\* faulty variant: the remapped reads address the device itself
RemapGroupsOwnUnit(d) ==
    << <<NewCall("remapPower", getRemappedRegister(d, 0), 9, d)>>,
       <<NewCall("remapStatus", getRemappedRegister(d, 9), 1, d)>>,
       <<NewCall("remapTemp", getRemappedRegister(d, 11), 1, d)>>,
       <<NewCall("remapFault", getRemappedRegister(d, 12), 6, d)>> >>

\* the reads of readRemappedData, one after another, unit id 0
RemapGroups(d) ==
    << <<NewCall("remapPower", getRemappedRegister(d, 0), 9, 0)>>,
       <<NewCall("remapStatus", getRemappedRegister(d, 9), 1, 0)>>,
       <<NewCall("remapTemp", getRemappedRegister(d, 11), 1, 0)>>,
       <<NewCall("remapFault", getRemappedRegister(d, 12), 6, 0)>> >>

\* faulty variant: the string count is not limited
clampStringCountNot(stringCount) == stringCount

\* stringCount = Math.min(stringCount, 24)
clampStringCount(stringCount) == Min(stringCount, 24)

\* const batchSize = 10
batchSize == 10

\* const remainingStrings = Math.min(batchSize, stringCount - i)
remainingStrings(stringCount, i) == Min(batchSize, stringCount - i)

\* const startRegister = 32016 + (i * 2)
startRegister(i) == 32016 + (i * 2)

\* the entries pushed for one batch: string j of the batch is pushed when both
\* of its registers are in result.data
BatchStrings(r, stringCount, i) ==
    IF ~r.success THEN <<>>
    ELSE LET present == Min(remainingStrings(stringCount, i), Len(r.data) \div 2)
         IN [j \in 1..present |->
                LET voltage == toSignedInt16(r.data[(2 * j) - 1])
                    current == toSignedInt16(r.data[2 * j])
                IN [stringNumber |-> i + j,
                    voltage |-> Scaled(voltage, 10),
                    current |-> Scaled(current, 100),
                    power |-> Scaled(voltage * current, 1000)]]

\* the reads of readPVStrings(d, result.numberOfStrings), one after another,
\* unit id = device: the read of the string count when the record holds none
\* (or 0), then one read per batch of the `stringCount` strings
\* result.numberOfStrings as readPVStrings receives it: 0 for undefined
suppliedStringCount(result) ==
    IF "numberOfStrings" \in DOMAIN result THEN result["numberOfStrings"] ELSE 0

\* the count the batches are read for: the supplied one, limited, or else the
\* one worked out from the read of the string count
plannedStringCount(result, stringCount) ==
    IF suppliedStringCount(result) # 0
    THEN clampStringCount(suppliedStringCount(result)) ELSE stringCount

PvGroups(d, result, stringCount) ==
    LET n == plannedStringCount(result, stringCount)
    IN (IF suppliedStringCount(result) # 0 THEN <<>>
        ELSE << <<NewCall("detectedStringCount", 30071, 1, d)>> >>)
       \o [b \in 1..((n + batchSize - 1) \div batchSize) |->
              <<NewCall("pvStrings", startRegister((b - 1) * batchSize),
                        remainingStrings(n, (b - 1) * batchSize) * 2, d)>>]

\* the reads one category issues together (Promise.all), unit id = device
CategoryGroup(cat, d) ==
    CASE cat = "device" ->
           <<NewCall("model", 30000, 15, d), NewCall("serialNumber", 30015, 10, d),
             NewCall("firmwareVersion", 31025, 15, d),
             NewCall("numberOfStrings", 30071, 1, d), NewCall("ratedPower", 30073, 2, d)>>
      [] cat = "power" ->
           <<NewCall("peakPowerToday", 32078, 2, d), NewCall("dailyEnergyYield", 32114, 2, d),
             NewCall("totalEnergyYield", 32106, 2, d), NewCall("efficiency", 32086, 1, d)>>
      [] cat = "voltages" ->
           <<NewCall("lineVoltages", 32066, 3, d), NewCall("phaseVoltages", 32069, 3, d)>>
      [] cat = "currents" ->
           <<NewCall("phaseCurrents", 32072, 6, d), NewCall("gridFrequency", 32085, 1, d)>>
      [] cat = "status" ->
           <<NewCall("deviceStatus", 32089, 1, d), NewCall("runningStatus", 32002, 1, d),
             NewCall("internalTemperature", 32087, 1, d),
             NewCall("insulationResistance", 32088, 1, d)>>
      [] cat = "alarms" ->
           <<NewCall("alarms", 32008, 3, d), NewCall("faultCode", 32090, 1, d)>>

\* faulty variant: the alarms are read before the other categories
CategoryOrderAlarmsFirst ==
    <<"alarms", "device", "power", "voltages", "currents", "strings", "status">>

\* the order in which readInverterData visits the categories
CategoryOrder ==
    <<"device", "power", "voltages", "currents", "strings", "status", "alarms">>

RECURSIVE SelectedGroups(_, _, _, _)
SelectedGroups(i, cats, d, pv) ==
    IF i > Len(CategoryOrder) THEN <<>>
    ELSE (IF CategoryOrder[i] \notin cats THEN <<>>
          ELSE IF CategoryOrder[i] = "strings" THEN pv
          ELSE <<CategoryGroup(CategoryOrder[i], d)>>)
         \o SelectedGroups(i + 1, cats, d, pv)

\* every group of reads of one readInverterData(d, _, cats), in issue order;
\* `pv` are the reads of the 'strings' category
ReadSchedule(d, cats, pv) == RemapGroups(d) \o SelectedGroups(1, cats, d, pv)

\* ------------------------------------------- Device Data Reader: records
\* if (r.success) result[name] = r.data / gain
ScaledField(name, r, gain) == IF r.success THEN (name :> Scaled(r.data, gain)) ELSE <<>>

\* if (r.success) result[name] = r.data
PlainField(name, r) == IF r.success THEN (name :> r.data) ELSE <<>>

\* if (s) result[name] = s: an empty string is not stored
StringField(name, r) == IF r.success /\ r.data # <<>> THEN (name :> r.data) ELSE <<>>

\* the block read succeeded with at least n registers
HasBlock(c, n) == c.result = "success" /\ Len(c.data) >= n

\* readDeviceStatus: the text of a status code
DeviceStatusText(code) ==
    CASE code = 0 -> "Standby: initializing"
      [] code = 512 -> "On-grid"
      [] code = 513 -> "Grid connection: power limited"
      [] code = 768 -> "Shutdown: fault"
      [] code = 1280 -> "Spot-check ready"
      [] OTHER -> <<"Unknown status (0x", code, ")">>

Alarm1Texts ==
    <<"High String Input Voltage (Major)", "DC Arc Fault (Major)",
      "String Reverse Connection (Major)", "String Current Backfeed (Warning)",
      "Abnormal String Power (Warning)", "AFCI Self-Check Fail (Major)",
      "Phase Wire Short-Circuited to PE (Major)", "Grid Loss (Major)",
      "Grid Undervoltage (Major)", "Grid Overvoltage (Major)",
      "Grid Voltage Imbalance (Major)", "Grid Overfrequency (Major)",
      "Grid Underfrequency (Major)", "Unstable Grid Frequency (Major)",
      "Output Overcurrent (Major)", "Output DC Component Overhigh (Major)">>

Alarm2Texts ==
    <<"Abnormal Residual Current (Major)", "Abnormal Grounding (Major)",
      "Low Insulation Resistance (Major)", "Overtemperature (Minor)",
      "Device Fault (Major)", "Upgrade Failed or Version Mismatch (Minor)",
      "License Expired (Warning)", "Faulty Monitoring Unit (Minor)",
      "Faulty Power Collector (Major)", "Battery Abnormal (Minor)",
      "Active Islanding (Major)", "Passive Islanding (Major)",
      "Transient AC Overvoltage (Major)", "Peripheral Port Short Circuit (Warning)",
      "Churn Output Overload (Major)", "Abnormal PV Module Configuration (Major)">>

Alarm3Texts ==
    <<"Optimizer Fault (Warning)", "Built-in PID Operation Abnormal (Minor)",
      "High Input String Voltage to Ground (Major)", "External Fan Abnormal (Major)",
      "Battery Reverse Connection (Major)",
      "On-grid/Off-grid Controller Abnormal (Major)", "PV String Loss (Warning)",
      "Internal Fan Abnormal (Major)", "DC Protection Unit Abnormal (Major)",
      "EL Unit Abnormal (Minor)", "Active Adjustment Instruction Abnormal (Major)",
      "Reactive Adjustment Instruction Abnormal (Major)", "CT Wiring Abnormal (Major)",
      "DC Arc Fault (ADMC - Manual Clear Required) (Major)",
      "DC Switch Abnormal (Minor)", "Low Battery Discharge Capacity (Warning)">>

\* alarm & (1 << bit)
AlarmBit(alarm, bit) == (alarm \div (2 ^ bit)) % 2 = 1

\* faulty variant: bit 15 first
BitTextsHighFirst(alarm, texts) ==
    LET F[i \in 0..16] ==
            IF i = 0 THEN <<>>
            ELSE (IF AlarmBit(alarm, i - 1) THEN <<texts[i]>> ELSE <<>>) \o F[i - 1]
    IN F[16]

\* the texts of the set bits of one alarm register, bit 0 first
BitTexts(alarm, texts) ==
    LET F[i \in 0..16] ==
            IF i = 0 THEN <<>>
            ELSE F[i - 1] \o (IF AlarmBit(alarm, i - 1) THEN <<texts[i]>> ELSE <<>>)
    IN F[16]

\* readAlarms: {} when the read failed, else the registers and their texts
readAlarms(c) ==
    IF ~HasBlock(c, 3) THEN <<>>
    ELSE ("alarm1" :> c.data[1]) @@ ("alarm2" :> c.data[2]) @@ ("alarm3" :> c.data[3])
         @@ ("alarmTexts" :> (BitTexts(c.data[1], Alarm1Texts)
                              \o BitTexts(c.data[2], Alarm2Texts)
                              \o BitTexts(c.data[3], Alarm3Texts)))

\* faulty variant: the toggle is ignored
AlarmFieldsWhenSet(alarms, alwaysIncludeAlarmTexts) ==
    [f \in (DOMAIN alarms) \cap {"alarm1", "alarm2", "alarm3"} |-> alarms[f]]
    @@ (IF "alarmTexts" \in DOMAIN alarms /\ Len(alarms["alarmTexts"]) > 0
        THEN ("alarmTexts" :> alarms["alarmTexts"])
        ELSE <<>>)

\* the alarm fields merged into the record
AlarmFields(alarms, alwaysIncludeAlarmTexts) ==
    [f \in (DOMAIN alarms) \cap {"alarm1", "alarm2", "alarm3"} |-> alarms[f]]
    @@ (IF alwaysIncludeAlarmTexts
           \/ ("alarmTexts" \in DOMAIN alarms /\ Len(alarms["alarmTexts"]) > 0)
        THEN ("alarmTexts" :> (IF "alarmTexts" \in DOMAIN alarms
                               THEN alarms["alarmTexts"] ELSE <<>>))
        ELSE <<>>)

\* the fields that the returned read c adds to the record
HelperFields(c, alwaysIncludeAlarmTexts) ==
    CASE c.name = "remapPower" ->
           IF ~HasBlock(c, 9) THEN <<>>
           ELSE ("activePower" :> Scaled(combineI32RegistersLE(c.data[1], c.data[2]), 1000))
                @@ ("reactivePower" :> Scaled(combineI32RegistersLE(c.data[3], c.data[4]), 1000))
                @@ ("dcCurrent" :> Scaled(toSignedInt16(c.data[5]), 100))
                @@ ("inputPower" :> Scaled(combineU32RegistersLE(c.data[6], c.data[7]), 1000))
                @@ ("powerFactor" :> Scaled(toSignedInt16(c.data[9]), 1000))
      [] c.name = "remapStatus" -> PlainField("status", readU16Result(c))
      [] c.name = "remapTemp" -> ScaledField("cabinetTemperature", readI16Result(c), 10)
      [] c.name = "remapFault" ->
           IF ~HasBlock(c, 6) THEN <<>>
           ELSE ("majorFault" :> combineU32RegistersLE(c.data[1], c.data[2]))
                @@ ("minorFault" :> combineU32RegistersLE(c.data[3], c.data[4]))
                @@ ("warning" :> combineU32RegistersLE(c.data[5], c.data[6]))
      [] c.name = "model" -> StringField("model", readStringResult(c, 30))
      [] c.name = "serialNumber" -> StringField("serialNumber", readStringResult(c, 20))
      [] c.name = "firmwareVersion" -> StringField("firmwareVersion", readStringResult(c, 30))
      [] c.name = "numberOfStrings" -> PlainField("numberOfStrings", readU16Result(c))
      [] c.name = "ratedPower" -> ScaledField("ratedPower", readU32Result(c), 1000)
      [] c.name = "peakPowerToday" -> ScaledField("peakPowerToday", readI32Result(c), 1000)
      [] c.name = "dailyEnergyYield" -> ScaledField("dailyEnergyYield", readU32Result(c), 100)
      [] c.name = "totalEnergyYield" -> ScaledField("totalEnergyYield", readU32Result(c), 100)
      [] c.name = "efficiency" -> ScaledField("efficiency", readU16Result(c), 100)
      [] c.name = "lineVoltages" ->
           IF ~HasBlock(c, 3) THEN <<>>
           ELSE ("gridVoltageUAB" :> Scaled(c.data[1], 10))
                @@ ("gridVoltageUBC" :> Scaled(c.data[2], 10))
                @@ ("gridVoltageUCA" :> Scaled(c.data[3], 10))
      [] c.name = "phaseVoltages" ->
           IF ~HasBlock(c, 3) THEN <<>>
           ELSE ("phaseAVoltage" :> Scaled(c.data[1], 10))
                @@ ("phaseBVoltage" :> Scaled(c.data[2], 10))
                @@ ("phaseCVoltage" :> Scaled(c.data[3], 10))
      [] c.name = "phaseCurrents" ->
           IF ~HasBlock(c, 6) THEN <<>>
           ELSE ("phaseACurrent" :> Scaled(combineI32RegistersLE(c.data[1], c.data[2]), 1000))
                @@ ("phaseBCurrent" :> Scaled(combineI32RegistersLE(c.data[3], c.data[4]), 1000))
                @@ ("phaseCCurrent" :> Scaled(combineI32RegistersLE(c.data[5], c.data[6]), 1000))
      [] c.name = "gridFrequency" -> ScaledField("gridFrequency", readU16Result(c), 100)
      [] c.name = "deviceStatus" ->
           LET r == readU16Result(c)
           IN IF ~r.success THEN <<>>
              ELSE ("deviceStatus" :> r.data) @@ ("deviceStatusText" :> DeviceStatusText(r.data))
      [] c.name = "runningStatus" -> PlainField("runningStatus", readU16Result(c))
      [] c.name = "internalTemperature" ->
           ScaledField("internalTemperature", readI16Result(c), 10)
      [] c.name = "insulationResistance" ->
           ScaledField("insulationResistance", readU16Result(c), 1000)
      [] c.name = "alarms" -> AlarmFields(readAlarms(c), alwaysIncludeAlarmTexts)
      [] c.name = "faultCode" -> PlainField("faultCode", readU16Result(c))
      [] c.name \in {"detectedStringCount", "pvStrings"} -> <<>>

\* the fields added by the returned reads 1..n of the group on client k
GroupFields(k, n, alwaysIncludeAlarmTexts) ==
    LET F[i \in 0..n] ==
            IF i = 0 THEN <<>>
            ELSE HelperFields(calls[<<k, i>>], alwaysIncludeAlarmTexts) @@ F[i - 1]
    IN F[n]

\* the read whose registers a data field is decoded from
SourceRead(field) ==
    CASE field \in {"activePower", "reactivePower", "dcCurrent", "inputPower",
                    "powerFactor"} -> "remapPower"
      [] field = "status" -> "remapStatus"
      [] field = "cabinetTemperature" -> "remapTemp"
      [] field \in {"majorFault", "minorFault", "warning"} -> "remapFault"
      [] field \in {"gridVoltageUAB", "gridVoltageUBC", "gridVoltageUCA"} -> "lineVoltages"
      [] field \in {"phaseAVoltage", "phaseBVoltage", "phaseCVoltage"} -> "phaseVoltages"
      [] field \in {"phaseACurrent", "phaseBCurrent", "phaseCCurrent"} -> "phaseCurrents"
      [] field \in {"deviceStatus", "deviceStatusText"} -> "deviceStatus"
      [] field \in {"alarm1", "alarm2", "alarm3", "alarmTexts"} -> "alarms"
      [] OTHER -> field

\* devices of 'specifyDevices': { unitId: addr, deviceAddress: addr,
\* deviceName: `Inverter-${addr}` }
DeviceName(addr) == <<"Inverter-", addr>>

\* const result = { unitId: deviceAddress, ...(deviceName && { deviceName }) }
\* a device without a name, or with the name "", has deviceName <<>>
NewRecord(deviceAddress, deviceName) ==
    ("unitId" :> deviceAddress)
    @@ (IF deviceName # <<>> THEN ("deviceName" :> deviceName) ELSE <<>>)

\* faulty variant: the error record keeps the identity fields only
WithErrorAlone(result) ==
    ("error" :> "error.message")
    @@ [f \in (DOMAIN result) \cap {"unitId", "deviceName"} |-> result[f]]

\* result.error = error.message
WithError(result) == ("error" :> "error.message") @@ result

IdentityFields == {"unitId", "deviceName"}

\* faulty variant: the record is put in front of the earlier ones
PushResultFirst(results, record) == <<record>> \o results

\* results.push(inverterData)
PushResult(results, record) == Append(results, record)

\* readFromDiscovery connects with retries: 3
DiscoveryReadRetries == 3

Selections == {{}, {"voltages"}, {"strings"}, {"currents", "alarms"}}

\* the parameters specifyDevices is run with: the address "1" with each
\* category selection, and with both values of the toggle where the alarms
\* are read, the list "2,1" with the remapped reads alone, the same list
\* with one category and no retries, and the address "1" with a negative
\* retry count
SpecifiedParameters ==
    {[inverterAddresses |-> <<"1">>, cats |-> sel[1],
      alwaysIncludeAlarmTexts |-> sel[2], retries |-> MaxRetries] :
         sel \in {x \in Selections \X BOOLEAN : x[2] => "alarms" \in x[1]}}
    \cup {[inverterAddresses |-> <<"2", ",", "1">>, cats |-> {},
           alwaysIncludeAlarmTexts |-> FALSE, retries |-> MaxRetries],
          [inverterAddresses |-> <<"2", ",", "1">>, cats |-> {"voltages"},
           alwaysIncludeAlarmTexts |-> FALSE, retries |-> 0],
          [inverterAddresses |-> <<"1">>, cats |-> {"voltages"},
           alwaysIncludeAlarmTexts |-> FALSE, retries |-> -1]}

\* String.prototype.includes(text)
IncludesText(str, text) ==
    \E i \in 0..(Len(str) - Len(text)) : SubSeq(str, i + 1, i + Len(text)) = text

\* String.prototype.toLowerCase of a name of ASCII characters
ToLowerCase(str) ==
    [i \in 1..Len(str) |-> IF str[i] \in 65..90 THEN str[i] + 32 ELSE str[i]]

\* device.deviceName && (device.deviceName.includes('SUN2000')
\*    || device.deviceName.includes('100KTL')
\*    || device.deviceName.toLowerCase().includes('inverter'))
IsInverterName(deviceName) ==
    /\ deviceName # <<>>
    /\ \/ IncludesText(deviceName, <<83, 85, 78, 50, 48, 48, 48>>)
       \/ IncludesText(deviceName, <<49, 48, 48, 75, 84, 76>>)
       \/ IncludesText(ToLowerCase(deviceName),
                       <<105, 110, 118, 101, 114, 116, 101, 114>>)

\* if (filterInverters) discoveredDevices = discoveredDevices.filter(...)
FilteredDevices(allDevices, filterInverters) ==
    IF filterInverters
    THEN SelectSeq(allDevices, LAMBDA device : IsInverterName(device.deviceName))
    ELSE allDevices

\* the devices of a discovery output: their sub-address (deviceAddress)
\* differs from the unit id, the first has no name and the second is named
\* "SUN2000"
NamelessDevice == [unitId |-> 12, deviceAddress |-> 2, deviceName |-> <<>>]

InverterDevice ==
    [unitId |-> 13, deviceAddress |-> 1,
     deviceName |-> <<83, 85, 78, 50, 48, 48, 48>>]

\* the input and the parameters readFromDiscovery is run with: both devices,
\* the higher sub-address first, without the filter and with the remapped
\* reads alone; the same output with the filter, which leaves the inverter,
\* with the alarms read and the toggle on and off; the device without a
\* name alone, with a category and without the filter, and with the filter,
\* which leaves no device
DiscoveryInputs ==
    {[allDevices |-> <<NamelessDevice, InverterDevice>>, filterInverters |-> FALSE,
      cats |-> {}, alwaysIncludeAlarmTexts |-> FALSE],
     [allDevices |-> <<NamelessDevice, InverterDevice>>, filterInverters |-> TRUE,
      cats |-> {"currents", "alarms"}, alwaysIncludeAlarmTexts |-> TRUE],
     [allDevices |-> <<NamelessDevice, InverterDevice>>, filterInverters |-> TRUE,
      cats |-> {"alarms"}, alwaysIncludeAlarmTexts |-> FALSE],
     [allDevices |-> <<NamelessDevice>>, filterInverters |-> FALSE,
      cats |-> {"voltages"}, alwaysIncludeAlarmTexts |-> FALSE],
     [allDevices |-> <<NamelessDevice>>, filterInverters |-> TRUE,
      cats |-> {"voltages"}, alwaysIncludeAlarmTexts |-> FALSE]}

\* A request of readMultipleInverters: `devices` holds the deviceAddress of
\* each device, `unitIds` its unitId and `names` its deviceName.
\* specifyDevices: one device { unitId: addr, deviceAddress: addr,
\* deviceName: `Inverter-${addr}` } for each address of the parsed list, and
\* the retries of the node parameter
SpecifiedRequest(p) ==
    The({[devices |-> [k \in 1..Len(addresses) |-> addresses[k].int],
          unitIds |-> [k \in 1..Len(addresses) |-> addresses[k].int],
          names |-> [k \in 1..Len(addresses) |-> DeviceName(addresses[k].int)],
          cats |-> p.cats, alwaysIncludeAlarmTexts |-> p.alwaysIncludeAlarmTexts,
          retries |-> p.retries] :
            addresses \in {parseAddressList(p.inverterAddresses)}})

\* readFromDiscovery: the devices the filter leaves, in the order of the
\* discovery output, with the data categories and the toggle of the node
\* and retries: 3
DiscoveredRequest(p) ==
    The({[devices |-> [k \in 1..Len(discoveredDevices) |->
                          discoveredDevices[k].deviceAddress],
          unitIds |-> [k \in 1..Len(discoveredDevices) |->
                          discoveredDevices[k].unitId],
          names |-> [k \in 1..Len(discoveredDevices) |->
                        discoveredDevices[k].deviceName],
          cats |-> p.cats, alwaysIncludeAlarmTexts |-> p.alwaysIncludeAlarmTexts,
          retries |-> DiscoveryReadRetries] :
            discoveredDevices \in {FilteredDevices(p.allDevices, p.filterInverters)}})

\* the requests execute hands to readMultipleInverters; it makes none when
\* the address list or the filtered discovery output is empty
Requests ==
    {SpecifiedRequest(p) : p \in SpecifiedParameters}
    \cup {DiscoveredRequest(p) :
             p \in {q \in DiscoveryInputs :
                       FilteredDevices(q.allDevices, q.filterInverters) # <<>>}}

RdInit ==
    /\ calls = <<>>
    /\ \E rq \in Requests :
          /\ client = (Main :> Connected(NewClient(RemapUnit, rq.retries)))
          /\ rd = [devices |-> rq.devices, unitIds |-> rq.unitIds,
                   names |-> rq.names, cats |-> rq.cats,
                   alwaysIncludeAlarmTexts |-> rq.alwaysIncludeAlarmTexts,
                   di |-> 1, gi |-> 0, phase |-> "idle",
                   result |-> NewRecord(rq.devices[1], rq.names[1]),
                   stringCount |-> 4, strings |-> <<>>, issued |-> <<>>,
                   okReads |-> {}, results |-> <<>>, threw |-> <<>>]
    /\ par = [pc |-> "off"]
    /\ task = <<>>

\* the reads of the current device; rd.stringCount is the count the batches
\* of PV strings are planned with: 4 until the string count has been read
RdSchedule ==
    ReadSchedule(rd.devices[rd.di], rd.cats,
                 PvGroups(rd.devices[rd.di], rd.result, rd.stringCount))

\* the names of the reads of a group
ReadNames(group) == [i \in DOMAIN group |-> group[i].name]

\* the next read, or the next Promise.all of reads, of the current device;
\* rd.issued lists the reads issued for the device so far
RdIssue ==
    /\ rd.phase = "idle"
    /\ rd.di <= Len(rd.devices)
    /\ rd.gi < Len(RdSchedule)
    /\ IssueGroup(Main, RdSchedule[rd.gi + 1])
    /\ rd' = [rd EXCEPT !.gi = rd.gi + 1, !.phase = "wait",
                        !.issued = @ \o ReadNames(RdSchedule[rd.gi + 1])]
    /\ UNCHANGED <<par, task>>

\* the calls of the reader once its await has ended: the reads that have
\* returned are gone, the reads still in flight go on without a caller
Abandoned(di) ==
    LET pending == {id \in Awaited(Main) : calls[id].pc # "ret"}
        others == (DOMAIN calls) \ Awaited(Main)
    IN [id \in others \cup {<<Main, p[2], di>> : p \in pending} |->
           IF id \in others THEN calls[id] ELSE calls[<<Main, id[2]>>]]

\* the fields readRemappedData assigns one by one from a block of registers,
\* in the order of its assignments; the other reads assign at most one
\* field, or throw before any
AssignedFields(name) ==
    CASE name = "remapPower" ->
           <<"activePower", "reactivePower", "dcCurrent", "inputPower", "powerFactor">>
      [] name = "remapFault" -> <<"majorFault", "minorFault", "warning">>
      [] OTHER -> <<>>

\* the numbers of fields that can have been assigned when a helper throws:
\* every assignment of a block can throw, after those before it
KeptCounts(name) == 0..Max(Len(AssignedFields(name)) - 1, 0)

\* the fields of the read c that were assigned before the assignment that
\* threw, the one after the first `kept`
KeptFields(c, kept, alwaysIncludeAlarmTexts) ==
    [f \in {AssignedFields(c.name)[k] : k \in 1..kept}
           \cap DOMAIN HelperFields(c, alwaysIncludeAlarmTexts) |->
        HelperFields(c, alwaysIncludeAlarmTexts)[f]]

\* The await of the reads ends.  Without an error it ends when all of them
\* have returned, and their fields are merged.  `raises`: a helper throws
\* while it handles the response to its read; its promise rejects, and with
\* it the Promise.all, at once, while the reads of the sibling helpers may be
\* in flight.  Thrown in readRemappedData the error is swallowed, the
\* `kept` fields of the block assigned before it stay and the remaining
\* remapped reads are skipped; thrown in a category it is caught by
\* readInverterData, which sets result.error and returns.  After the last
\* group the record is returned and readMultipleInverters pushes it.
RdJoin(raises, kept) ==
    /\ rd.phase = "wait"
    /\ IF raises THEN \E id \in Awaited(Main) : calls[id].result = "success"
       ELSE AllReturned(Main)
    /\ kept \in (IF raises THEN KeptCounts(calls[<<Main, 1>>].name) ELSE {0})
    /\ calls' = Abandoned(rd.di)
    /\ LET n == Len(RdSchedule[rd.gi])
           remapped == rd.gi <= Len(RemapGroups(rd.devices[rd.di]))
           ok == rd.okReads \cup {calls[<<Main, i>>].name :
                                    i \in {i \in 1..n : calls[<<Main, i>>].result = "success"}}
           first == calls[<<Main, 1>>]
           detected == readU16Result(first)
           stringCount ==
               IF first.name # "detectedStringCount" \/ raises THEN rd.stringCount
               ELSE clampStringCount(IF detected.success /\ detected.data > 0
                                     THEN detected.data ELSE 4)
           planned == plannedStringCount(rd.result, rd.stringCount)
           before == (first.address - startRegister(0)) \div 2
           strings ==
               IF first.name # "pvStrings" \/ raises THEN rd.strings
               ELSE rd.strings \o BatchStrings(readHoldingRegistersResult(first),
                                               planned, before)
           pvStrings ==
               IF first.name = "pvStrings" /\ before + batchSize >= planned
                  /\ strings # <<>>
               THEN ("pvStrings" :> strings) ELSE <<>>
           merged == IF raises
                     THEN KeptFields(first, kept, rd.alwaysIncludeAlarmTexts)
                          @@ rd.result
                     ELSE pvStrings
                          @@ GroupFields(Main, n, rd.alwaysIncludeAlarmTexts)
                          @@ rd.result
           result == IF raises /\ ~remapped THEN WithError(merged) ELSE merged
           gi == IF raises /\ remapped THEN Len(RemapGroups(rd.devices[rd.di])) ELSE rd.gi
           returns == (raises /\ ~remapped) \/ gi = Len(RdSchedule)
       IN rd' = [rd EXCEPT
              !.gi = gi, !.okReads = ok, !.result = result,
              !.stringCount = stringCount, !.strings = strings,
              !.phase = IF returns THEN "delay" ELSE "idle",
              !.results = IF returns THEN PushResult(@, result) ELSE @,
              !.threw = IF returns THEN Append(@, raises /\ ~remapped) ELSE @]
    /\ UNCHANGED <<client, par, task>>

\* readMultipleInverters: 100 ms later, the next device; after the last one
\* Sun2000.execute disconnects
RdNextDevice(closeRaises, stillOpen) ==
    /\ rd.phase = "delay"
    /\ IF rd.di < Len(rd.devices)
       THEN /\ ~closeRaises /\ ~stillOpen
            /\ rd' = [rd EXCEPT !.di = rd.di + 1, !.gi = 0, !.phase = "idle",
                                !.result = NewRecord(rd.devices[rd.di + 1],
                                                     rd.names[rd.di + 1]),
                                !.stringCount = 4, !.strings = <<>>,
                                !.issued = <<>>, !.okReads = {}]
            /\ UNCHANGED client
       ELSE /\ closeRaises \/ ~stillOpen
            /\ rd' = [rd EXCEPT !.di = rd.di + 1, !.phase = "done"]
            /\ client' = [client EXCEPT ![Main] =
                             disconnect(client[Main], closeRaises, stillOpen)]
    /\ UNCHANGED <<calls, par, task>>

Init == RdInit

Next ==
    \/ RdIssue
    \/ \E raises \in BOOLEAN, kept \in 0..Len(AssignedFields("remapPower")) :
          RdJoin(raises, kept)
    \/ \E closeRaises, stillOpen \in BOOLEAN : RdNextDevice(closeRaises, stillOpen)
    \/ \E id \in DOMAIN calls : ConnectOk(id)
    \/ \E id \in DOMAIN calls : ConnectFail(id)
    \/ \E id \in DOMAIN calls :
          \E words \in ResponseData(calls[id].sentTo, calls[id].address, calls[id].count) :
              RespOk(id, words)
    \/ \E id \in DOMAIN calls, closes \in BOOLEAN : RespFail(id, closes)
    \/ \E id \in DOMAIN calls : Retry(id)

Spec == Init /\ [][Next]_vars

\* ------------------------------------------------------ parallel discovery
\* the discovery configuration of SmartLogger.execute: retries: 1
DiscoveryRetries == 1

\* the unit ranges and concurrency limits the scan is run on
UnitRanges == {<<12>>, <<12, 13>>, <<12, 13, 14>>}

\* the two parallel scans, and the unit ranges each scan is run on
Scans == {"discoverAllDevicesParallel", "discoverInvertersParallel"}

\* the scans that keep only a device whose name includes 'SUN2000'
InverterScans == {"discoverInverters", "discoverInvertersParallel"}

ScanRanges(scan) ==
    IF scan \in InverterScans THEN {<<12>>, <<12, 13>>} ELSE UnitRanges

Concurrencies == {1, 2}

\* i += concurrency.  With a negative concurrency i falls without end; every
\* index below -unitRange.length slices the same empty batch, so the index is
\* followed down to -MaxRounds and kept there
MaxRounds == 3

NextIndex(i, concurrency) ==
    IF i + concurrency < -MaxRounds THEN -MaxRounds ELSE i + concurrency

\* Array.prototype.slice: an index below 0 counts from the end, and every
\* index is brought into 0..len
SliceIndex(index, len) ==
    IF index < 0 THEN (IF len + index < 0 THEN 0 ELSE len + index)
    ELSE Min(index, len)

\* unitRange.slice(i, i + concurrency), i counted from 0
Batch(unitRange, i, concurrency) ==
    SubSeq(unitRange, SliceIndex(i, Len(unitRange)) + 1,
           SliceIndex(i + concurrency, Len(unitRange)))

\* faulty variant: the dedicated connection keeps the caller's unit id
DedicatedConfigKeepsUnit(originalConfig, unitId) ==
    [unitId |-> originalConfig.unitId, retries |-> originalConfig.retries]

\* { ...originalConfig, unitId: unitId }
DedicatedConfig(originalConfig, unitId) ==
    [unitId |-> unitId, retries |-> originalConfig.retries]

\* readString(65524, 10, 20, unitId) and the three readU16 of one unit
NameCall(unitId) == NewCall("deviceName", 65524, 10, unitId)

InfoCalls(unitId) ==
    <<NewCall("connectionStatus", 65534, 1, unitId),
      NewCall("portNumber", 65522, 1, unitId),
      NewCall("deviceAddress", 65523, 1, unitId)>>

\* faulty variant: an empty name is accepted
NameAcceptedWhenEmpty(nameResult) == nameResult.success

\* deviceNameResult.success && deviceNameResult.data
NameAccepted(nameResult) == nameResult.success /\ nameResult.data # <<>>

\* deviceNameResult.success && deviceNameResult.data
\*    && deviceNameResult.data.includes('SUN2000')
InverterNameAccepted(nameResult) ==
    /\ NameAccepted(nameResult)
    /\ IncludesText(nameResult.data, <<83, 85, 78, 50, 48, 48, 48>>)

\* the test of the scan on the name it read
ScanAccepts(scan, nameResult) ==
    IF scan \in InverterScans THEN InverterNameAccepted(nameResult)
    ELSE NameAccepted(nameResult)

\* statusValue === 0xB001 ? 'Online' : statusValue === 0xB000 ? 'Offline' : `Unknown (0x..)`
ParallelStatusLabel(statusValue) ==
    IF statusValue = 45057 THEN "Online"
    ELSE IF statusValue = 45056 THEN "Offline"
    ELSE "Unknown (0x..)"

\* the DeviceInfo built from the four results
ParallelDeviceInfo(unitId, name, status, port, addr) ==
    (("unitId" :> unitId) @@ ("deviceName" :> name.data))
    @@ (IF status.success THEN ("connectionStatus" :> ParallelStatusLabel(status.data)) ELSE <<>>)
    @@ (IF port.success THEN ("portNumber" :> port.data) ELSE <<>>)
    @@ (IF addr.success THEN ("deviceAddress" :> addr.data) ELSE <<>>)

\* faulty variant: the reads address the caller's own unit
targetUnitIdOwn(unitId, own) == own

\* const targetUnitId = unitId || this.unitId
targetUnitId(unitId, own) == IF unitId = 0 THEN own ELSE unitId

\* parseConnectionStatus(statusValue)
parseConnectionStatus(statusValue) ==
    IF statusValue = 45057 THEN "Online"
    ELSE IF statusValue = 45056 THEN "Offline"
    ELSE "Unknown"

\* the DeviceInfo pushed for a unit from the results of its four helpers
SequentialDeviceInfo(unitId, name, status, port, addr) ==
    (("unitId" :> unitId) @@ ("deviceName" :> name.data))
    @@ (IF status.success
        THEN ("connectionStatus" :> parseConnectionStatus(status.data)) ELSE <<>>)
    @@ (IF port.success THEN ("portNumber" :> port.data) ELSE <<>>)
    @@ (IF addr.success THEN ("deviceAddress" :> addr.data) ELSE <<>>)

NoEntry == <<>>

NoRead == [success |-> FALSE, data |-> <<>>, error |-> Undefined]

\* faulty variant: the unit id is set on the caller's connection as well
CreateDedicatedSetsShared(clients, u) ==
    LET config == DedicatedConfig(clients[Main], u)
    IN [k \in (DOMAIN clients) \cup {u} |->
           IF k = u THEN NewClient(config.unitId, config.retries)
           ELSE IF k = Main THEN [clients[k] EXCEPT !.activeId = u]
           ELSE clients[k]]

\* originalConfig = this.client.getConfig(), a copy of the caller's
\* configuration; new HuaweiModbusClient({...originalConfig, unitId})
CreateDedicated(clients, u) ==
    LET config == DedicatedConfig(clients[Main], u)
    IN [k \in (DOMAIN clients) \cup {u} |->
           IF k = u THEN NewClient(config.unitId, config.retries) ELSE clients[k]]

\* the caller's connection is the discoveryClient that SmartLogger.execute
\* constructs for the scan and does not connect; `scan` is the scan that is
\* run, discoverAllDevicesParallel(unitRange, concurrency) or
\* discoverInvertersParallel(unitRange, concurrency)
ParInit ==
    /\ client = (Main :> NewClient(3, DiscoveryRetries))
    /\ calls = <<>>
    /\ rd = [phase |-> "off"]
    /\ \E scan \in Scans, c \in Concurrencies :
           \E r \in ScanRanges(scan) :
               par = [pc |-> "loop", scan |-> scan, unitRange |-> r,
                      concurrency |-> c, i |-> 0, discovered |-> <<>>]
    /\ task = <<>>

CurrentBatch == Batch(par.unitRange, par.i, par.concurrency)

\* for (i ...; i < unitRange.length; ...): batch.map(async ...) runs every task
\* of the batch up to its "await import"
ParBatchStart ==
    /\ par.pc = "loop"
    /\ par.i < Len(par.unitRange)
    /\ par' = [par EXCEPT !.pc = "batch"]
    /\ task' = [u \in (DOMAIN task) \cup Range(CurrentBatch) |->
                  IF u \in Range(CurrentBatch)
                  THEN [pc |-> "import", outcome |-> "none", entry |-> NoEntry,
                        nameRead |-> NoRead, sources |-> {}]
                  ELSE task[u]]
    /\ UNCHANGED <<client, calls, rd>>

\* new HuaweiModbusClient({...originalConfig, unitId}); connect() is called
TaskCreate(u) ==
    /\ u \in DOMAIN task
    /\ task[u].pc = "import"
    /\ client' = CreateDedicated(client, u)
    /\ task' = [task EXCEPT ![u].pc = "connecting"]
    /\ UNCHANGED <<calls, rd, par>>

\* connected: the name read is issued
TaskConnectOk(u) ==
    /\ u \in DOMAIN task
    /\ task[u].pc = "connecting"
    /\ LET st == StartGroup(u, <<NameCall(u)>>, 1,
                            [cl |-> Connected(client[u]), cs |-> <<>>])
       IN /\ client' = [client EXCEPT ![u] = st.cl]
          /\ calls' = WithCalls(CallsOf(u), st.cs)
    /\ task' = [task EXCEPT ![u].pc = "name"]
    /\ UNCHANGED <<rd, par>>

\* not connected: return null, the finally block disconnects
TaskConnectFail(u, closeRaises) ==
    /\ u \in DOMAIN task
    /\ task[u].pc = "connecting"
    /\ client' = [client EXCEPT ![u] = disconnect(ConnectFailed(@), closeRaises, FALSE)]
    /\ task' = [task EXCEPT ![u].pc = "done", ![u].outcome = "connfail"]
    /\ UNCHANGED <<calls, rd, par>>

\* the name read returned: an accepted name issues the three info reads; no
\* name, an empty name, in the scan for inverters a name without "SUN2000",
\* or an error raised while the response is decoded (caught) ends the task,
\* and the finally block disconnects
TaskNameJoin(u, raises, closeRaises, stillOpen) ==
    /\ u \in DOMAIN task
    /\ task[u].pc = "name"
    /\ calls[<<u, 1>>].pc = "ret"
    /\ raises => calls[<<u, 1>>].result = "success"
    /\ LET c == calls[<<u, 1>>]
           name == readStringResult(c, 20)
       IN IF ~raises /\ ScanAccepts(par.scan, name)
          THEN LET st == StartGroup(u, InfoCalls(u), 1, [cl |-> client[u], cs |-> <<>>])
               IN /\ ~closeRaises /\ ~stillOpen
                  /\ client' = [client EXCEPT ![u] = st.cl]
                  /\ calls' = WithCalls(CallsOf(u), st.cs)
                  /\ task' = [task EXCEPT ![u].pc = "info", ![u].nameRead = name,
                                          ![u].sources = {c.from}]
          ELSE /\ closeRaises \/ ~stillOpen
               /\ client' = [client EXCEPT ![u] = disconnect(@, closeRaises, stillOpen)]
               /\ calls' = WithCalls(CallsOf(u), <<>>)
               /\ task' = [task EXCEPT ![u].pc = "done",
                               ![u].nameRead = IF raises THEN NoRead ELSE name,
                               ![u].outcome = IF raises THEN "raised" ELSE "noname"]
    /\ UNCHANGED <<rd, par>>

\* Promise.all of the three info reads returned: the DeviceInfo is built, or
\* an error raised while the status word that was read is turned into its
\* label is caught and the unit skipped; the finally block disconnects
TaskInfoJoin(u, raises, closeRaises, stillOpen) ==
    /\ u \in DOMAIN task
    /\ task[u].pc = "info"
    /\ AllReturned(u)
    /\ raises => calls[<<u, 1>>].result = "success"
    /\ closeRaises \/ ~stillOpen
    /\ LET name == task[u].nameRead
           status == readU16Result(calls[<<u, 1>>])
           port == readU16Result(calls[<<u, 2>>])
           addr == readU16Result(calls[<<u, 3>>])
       IN task' = [task EXCEPT
              ![u].pc = "done",
              ![u].outcome = IF raises THEN "raised" ELSE "accepted",
              ![u].entry = IF raises THEN NoEntry
                           ELSE ParallelDeviceInfo(u, name, status, port, addr),
              ![u].sources = @ \cup {calls[<<u, j>>].from :
                                        j \in {j \in 1..3 : calls[<<u, j>>].result = "success"}}]
    /\ client' = [client EXCEPT ![u] = disconnect(@, closeRaises, stillOpen)]
    /\ calls' = WithCalls(CallsOf(u), <<>>)
    /\ UNCHANGED <<rd, par>>

RECURSIVE BatchResults(_, _)
\* for (const result of batchResults) if (result) discovered.push(result)
BatchResults(batch, j) ==
    IF j > Len(batch) THEN <<>>
    ELSE (IF task[batch[j]].outcome = "accepted" THEN <<task[batch[j]].entry>> ELSE <<>>)
         \o BatchResults(batch, j + 1)

\* await Promise.all(batchPromises): every task of the batch has finished
ParBatchJoin ==
    /\ par.pc = "batch"
    /\ \A u \in Range(CurrentBatch) : task[u].pc = "done"
    /\ par' = [par EXCEPT !.pc = "loop", !.i = NextIndex(par.i, par.concurrency),
                          !.discovered = @ \o BatchResults(CurrentBatch, 1)]
    /\ UNCHANGED <<client, calls, rd, task>>

\* the loop ends: return discovered
ParReturn ==
    /\ par.pc = "loop"
    /\ ~(par.i < Len(par.unitRange))
    /\ par' = [par EXCEPT !.pc = "done"]
    /\ UNCHANGED <<client, calls, rd, task>>

NextPar ==
    \/ ParBatchStart
    \/ \E u \in DOMAIN task : TaskCreate(u)
    \/ \E u \in DOMAIN task : TaskConnectOk(u)
    \/ \E u \in DOMAIN task, closeRaises \in BOOLEAN : TaskConnectFail(u, closeRaises)
    \/ \E u \in DOMAIN task, raises, closeRaises, stillOpen \in BOOLEAN :
          TaskNameJoin(u, raises, closeRaises, stillOpen)
    \/ \E u \in DOMAIN task, raises, closeRaises, stillOpen \in BOOLEAN :
          TaskInfoJoin(u, raises, closeRaises, stillOpen)
    \/ ParBatchJoin
    \/ ParReturn
    \/ \E id \in DOMAIN calls :
          \E words \in ResponseData(calls[id].sentTo, calls[id].address, calls[id].count) :
              RespOk(id, words)
    \/ \E id \in DOMAIN calls, closes \in BOOLEAN : RespFail(id, closes)
    \/ \E id \in DOMAIN calls : Retry(id)

SpecPar == ParInit /\ [][NextPar]_vars

\* ------------------------------------------------ claims on the shared connection
OverrideCalls(k) == {id \in CallsOf(k) : calls[id].unit # NoUnit}

\* the calls whose next attempt is sent with whatever unit id the connection has
InFlight(k) == {id \in OverrideCalls(k) : calls[id].pc \in {"wait", "backoff"}}

\* C1: whenever a readRegisters call made with a unit-id override returns (success,
\* 'failed to connect', or failure after its retries) the connection's active unit
\* id is the configured default.
C1_DefaultAtEveryReturn ==
    \A id \in DOMAIN calls :
        (calls[id].pc = "ret" /\ calls[id].unit # NoUnit)
            => calls[id].idAtReturn = client[id[1]].unitId

\* C2: every transport read attempt of readRegisters(address, count, u), the first
\* and each retry, is sent while the connection's active unit id is u.
C2_EveryAttemptSentToTarget ==
    \A id \in DOMAIN calls :
        calls[id].pc \in {"wait", "backoff"}
            => calls[id].sentTo = TargetUnit(calls[id], id[1])

\* C3: at every moment a connection has at most one readRegisters call in flight
\* that depends on the connection's active unit id.
C3_AtMostOneDependentCall ==
    \A k \in DOMAIN client : Cardinality(InFlight(k)) <= 1

\* ------------------------------------------------ claims on parallel discovery
Dedicated == (DOMAIN client) \ {Main}

\* C4: every request for a scanned unit u is issued on a connection created for u
\* alone whose configured default unit id is u; no connection carries requests for
\* two unit ids, and the DeviceInfo reported for u holds only values read from u.
C4_DedicatedConnectionIsolation ==
    /\ \A k \in Dedicated : client[k].unitId = k
    /\ \A id \in DOMAIN calls :
          /\ id[1] \in Dedicated
          /\ calls[id].unit = id[1]
          /\ calls[id].pc \in {"wait", "backoff"} => calls[id].sentTo = id[1]
          /\ calls[id].result = "success" => calls[id].from = id[1]
    /\ \A u \in DOMAIN task :
          /\ task[u].sources \subseteq {u}
          /\ \A f \in (DOMAIN task[u].entry) \cap {"unitId", "portNumber", "deviceAddress"} :
                task[u].entry[f] = u

\* two units are scanned at once, and on one of the two connections a retry is in
\* flight after a sibling read has returned and restored the default
C4_Witness ==
    \E u, v \in DOMAIN task :
        /\ u # v
        /\ task[u].pc = "info" /\ task[v].pc = "info"
        /\ \E i, j \in 1..3 :
              /\ calls[<<u, i>>].result = "success"
              /\ calls[<<u, j>>].pc = "wait" /\ calls[<<u, j>>].attempt >= 1

\* C5: for every scanned unit the dedicated connection is disconnected on every
\* outcome, and when the scan returns no dedicated connection remains open.
C5_DedicatedConnectionsClosed ==
    /\ \A u \in DOMAIN task :
          task[u].pc = "done"
              => u \in Dedicated /\ ~client[u].isConnected /\ ~client[u].isOpen
    /\ par.pc = "done"
          => /\ Dedicated = Range(par.unitRange)
             /\ \A k \in Dedicated : ~client[k].isConnected /\ ~client[k].isOpen

\* the scan has returned after an accepted device, a raised error and a unit
\* without a name
C5_Witness ==
    /\ par.pc = "done"
    /\ {"accepted", "raised", "noname"} \subseteq {task[u].outcome : u \in DOMAIN task}

\* the dedicated connections created and not yet disconnected: the task has
\* not ended, or it has and left the connection connected or open
OpenDedicated ==
    {k \in Dedicated :
        task[k].pc # "done" \/ client[k].isConnected \/ client[k].isOpen}

\* the batch that holds position p of the unit range
BatchIndex(p) == (p - 1) \div par.concurrency

\* C6: with concurrency limit c >= 1, at most c dedicated connections are created
\* and not yet disconnected, and no unit of a later batch is started before every
\* unit of the previous batches has finished and been disconnected: its task
\* has ended and its connection is neither connected nor open.
C6_ConcurrencyLimit ==
    /\ Cardinality(OpenDedicated) <= par.concurrency
    /\ \A p, q \in 1..Len(par.unitRange) :
          (BatchIndex(p) < BatchIndex(q) /\ par.unitRange[q] \in DOMAIN task)
              => /\ par.unitRange[p] \in DOMAIN task
                 /\ par.unitRange[p] \notin OpenDedicated

\* the limit is reached: two connections are open at once under concurrency 2
C6_Witness ==
    /\ par.concurrency = 2
    /\ Cardinality({k \in OpenDedicated : client[k].isOpen}) = 2

\* the name-register read of unit u succeeded with a non-empty string
NameReadOk(u) == task[u].nameRead.success /\ task[u].nameRead.data # <<>>

EntriesOf(u) == {j \in 1..Len(par.discovered) : par.discovered[j]["unitId"] = u}

\* C7: parallel discovery (discoverAllDevicesParallel, the scan the claim
\* is about) returns exactly one DeviceInfo for each scanned unit whose
\* name-register read succeeds with a non-empty string and none for any other unit;
\* an unresponsive unit yields neither an entry nor an error, and the entry of a
\* responsive unit is the one built from that unit's own reads.
C7_OneEntryPerNamedUnit ==
    par.pc = "done" /\ par.scan = "discoverAllDevicesParallel" =>
        /\ \A u \in Range(par.unitRange) :
              Cardinality(EntriesOf(u)) = IF NameReadOk(u) THEN 1 ELSE 0
        /\ \A j \in 1..Len(par.discovered) :
              LET e == par.discovered[j]
              IN /\ e["unitId"] \in Range(par.unitRange)
                 /\ "error" \notin DOMAIN e
                 /\ e["deviceName"] = task[e["unitId"]].nameRead.data
                 /\ e = task[e["unitId"]].entry

\* three units scanned: one answers with a name, one answers with an empty name,
\* one does not answer; the result holds the one named device
C7_Witness ==
    /\ par.pc = "done"
    /\ Len(par.unitRange) = 3
    /\ Len(par.discovered) = 1
    /\ \E u \in DOMAIN task : task[u].nameRead.success /\ task[u].nameRead.data = <<>>
    /\ \E u \in DOMAIN task : task[u].outcome = "noname" /\ ~task[u].nameRead.success

\* ------------------------------------------------ claims on the reader's records
DataFields(record) == (DOMAIN record) \ (IdentityFields \cup {"error"})

\* C8: every record returned by the Device Data Reader carries either data fields
\* or an error field, never both: a record with an error field has no field other
\* than unitId and deviceName.
C8_DataOrErrorNeverBoth ==
    \A i \in 1..Len(rd.results) :
        "error" \in DOMAIN rd.results[i] => DataFields(rd.results[i]) = {}

\* readInverterData has returned and its record was pushed: rd.okReads holds
\* the reads of that device that succeeded
Returned == rd.phase = "delay"

\* the record pushed last
LastEntry == rd.results[Len(rd.results)]

\* C9: when every transport read for a device fails, the entry returned for that
\* device in the multi-device result carries an error field (checked on each
\* entry when it is returned).
C9_AllReadsFailedHasError ==
    Returned => (rd.okReads = {} => "error" \in DOMAIN LastEntry)

\* C10: a field is present in the record only if the transport read of its source
\* registers succeeded, alarmTexts included, for both values of the 'always
\* include alarm texts' toggle (checked on each entry when it is returned).
C10_FieldOnlyIfReadSucceeded ==
    Returned => \A f \in DataFields(LastEntry) : SourceRead(f) \in rd.okReads

\* ------------------------------------------------ claims on the batch orchestrator
\* the devices whose record readMultipleInverters has pushed
DevicesReturned == IF rd.phase \in {"idle", "wait"} THEN rd.di - 1
                   ELSE Min(rd.di, Len(rd.devices))

EntriesInOrder ==
    /\ Len(rd.results) = DevicesReturned
    /\ \A i \in 1..Len(rd.results) :
          /\ [f \in (DOMAIN rd.results[i]) \cap IdentityFields |-> rd.results[i][f]]
                = NewRecord(rd.devices[i], rd.names[i])
          /\ rd.threw[i] <=> "error" \in DOMAIN rd.results[i]
    /\ rd.phase = "done" => Len(rd.results) = Len(rd.devices)

EntriesKept ==
    \A i \in 1..Len(rd.results) :
        Len(rd.results') >= i /\ rd.results'[i] = rd.results[i]

\* C11: readMultipleInverters returns exactly one entry per input device, in input
\* order; a device whose read throws is an error record in its own position, and
\* no entry already in the result is removed, reordered or changed.
C11_OneEntryPerDeviceInOrder == []EntriesInOrder /\ [][EntriesKept]_vars

\* two devices: the read of the first threw, the second is fully populated
C11_Witness ==
    /\ rd.phase = "done"
    /\ Len(rd.devices) = 2
    /\ rd.threw[1] /\ "error" \in DOMAIN rd.results[1]
    /\ ~rd.threw[2] /\ Cardinality(DataFields(rd.results[2])) = 16

\* ------------------------------------------- Connection Manager: lifecycle
\* One HuaweiModbusClient used by a caller that awaits each operation before
\* the next: connect(), disconnect(), readHoldingRegisters and the typed
\* helpers.  rd.cur counts what the call in progress has done, rd.last holds
\* the operation that returned last (a read's value under its helper's name)
\* until the next one starts.

\* the operations of one lifecycle
MaxOps == 3

\* the reads the caller makes: helper, address, count (and maxLength)
ReadInputs ==
    {[helper |-> "readHoldingRegisters", address |-> 32066, count |-> 3],
     [helper |-> "readU16", address |-> 32086, count |-> 1],
     [helper |-> "readI16", address |-> 32087, count |-> 1],
     [helper |-> "readU32", address |-> 30073, count |-> 2],
     [helper |-> "readI32", address |-> 32080, count |-> 2],
     [helper |-> "readString", address |-> 65524, count |-> 10]}

\* the unit id argument: undefined, or a device
ReadUnits == {NoUnit, 1}

\* what the transport may hand back for a request: the registers asked for, or
\* fewer of them
TransportData(unit, address, count) ==
    {SubSeq(w, 1, n) : w \in ResponseData(unit, address, count), n \in 0..count}

\* the result of the helper that made the returned call c
HelperResult(helper, c) ==
    CASE helper = "readHoldingRegisters" -> readHoldingRegistersResult(c)
      [] helper = "readU16" -> readU16Result(c)
      [] helper = "readI16" -> readI16Result(c)
      [] helper = "readU32" -> readU32Result(c)
      [] helper = "readI32" -> readI32Result(c)
      [] helper = "readString" -> readStringResult(c, 20)

NoOp == [kind |-> "none"]

TheCall == <<Main, 1>>

\* config.retries: the node parameter has no minimum, so a negative count too
RetryCounts == {-1, MaxRetries}

ConnInit ==
    /\ \E retries \in RetryCounts : client = (Main :> NewClient(RemapUnit, retries))
    /\ calls = <<>>
    /\ rd = [phase |-> "cm", op |-> "none", ops |-> 0, cur |-> NoOp, last |-> NoOp]
    /\ par = [pc |-> "off"]
    /\ task = <<>>

CmIdle == rd.phase = "cm" /\ rd.op = "none" /\ rd.ops < MaxOps

\* connect() is called: connectTCP is awaited
CmConnect ==
    /\ CmIdle
    /\ rd' = [rd EXCEPT !.op = "connect", !.cur = [prev |-> rd.last.kind], !.last = NoOp]
    /\ UNCHANGED <<client, calls, par, task>>

\* connectTCP resolves (ok) or rejects: connect() returns true / false
CmConnectDone(ok) ==
    /\ rd.phase = "cm" /\ rd.op = "connect"
    /\ client' = [client EXCEPT ![Main] =
                     IF ok THEN Connected(@)
                     ELSE IF Catches("connectTCP") THEN ConnectFailed(@) ELSE @]
    /\ rd' = [rd EXCEPT !.op = "none", !.ops = @ + 1, !.cur = NoOp,
                        !.last = [kind |-> "connect", prev |-> rd.cur.prev,
                                  raised |-> ~ok /\ ~Catches("connectTCP"),
                                  value |-> ok]]
    /\ UNCHANGED <<calls, par, task>>

\* disconnect(): close() returns, or raises leaving the port open or closed
CmDisconnect(closeRaises, stillOpen) ==
    /\ CmIdle
    /\ client' = [client EXCEPT ![Main] = disconnect(@, closeRaises, stillOpen)]
    /\ rd' = [rd EXCEPT !.ops = @ + 1,
                        !.last = [kind |-> "disconnect", prev |-> rd.last.kind,
                                  raised |-> closeRaises /\ ~Catches("close"),
                                  closeRaised |-> closeRaises,
                                  before |-> client[Main]]]
    /\ UNCHANGED <<calls, par, task>>

\* a read helper is called: readHoldingRegisters runs up to its first await
CmRead(inp, unit) ==
    /\ CmIdle
    /\ LET st == StartGroup(Main, <<NewCall(inp.helper, inp.address, inp.count, unit)>>, 1,
                            [cl |-> client[Main], cs |-> <<>>])
           started == st.cs[TheCall]
       IN /\ client' = [client EXCEPT ![Main] = st.cl]
          /\ calls' = st.cs
          /\ rd' = [rd EXCEPT
                 !.op = "read", !.last = NoOp,
                 !.cur = [helper |-> inp.helper, prev |-> rd.last.kind,
                          startConnected |-> client[Main].isConnected /\ client[Main].isOpen,
                          idAtStart |-> client[Main].activeId,
                          connects |-> IF started.pc = "conn" THEN 1 ELSE 0,
                          attempts |-> IF started.pc = "wait" THEN 1 ELSE 0,
                          failed |-> 0, words |-> <<>>]]
    /\ UNCHANGED <<par, task>>

CmReading == rd.phase = "cm" /\ rd.op = "read"

CmCallConnected ==
    /\ CmReading
    /\ AttemptConnected(TheCall)
    /\ rd' = [rd EXCEPT !.cur.attempts = IF calls'[TheCall].pc = "wait" THEN @ + 1 ELSE @]
    /\ UNCHANGED <<par, task>>

CmCallRefused ==
    /\ CmReading
    /\ ConnectRefused(TheCall)
    /\ UNCHANGED <<rd, par, task>>

CmRespOk(words) ==
    /\ CmReading
    /\ TheCall \in DOMAIN calls
    /\ words \in TransportData(calls[TheCall].sentTo, calls[TheCall].address,
                               calls[TheCall].count)
    /\ AttemptSucceeded(TheCall, words)
    /\ rd' = [rd EXCEPT !.cur.words = words]
    /\ UNCHANGED <<par, task>>

CmRespFail(closes) ==
    /\ CmReading
    /\ AttemptFailed(TheCall, closes)
    /\ rd' = [rd EXCEPT !.cur.failed = @ + 1]
    /\ UNCHANGED <<par, task>>

CmRetry ==
    /\ CmReading
    /\ AttemptRetried(TheCall)
    /\ rd' = [rd EXCEPT !.cur.attempts = @ + 1]
    /\ UNCHANGED <<par, task>>

\* readHoldingRegisters has returned (or raised) and the helper returns
CmReturn ==
    /\ CmReading
    /\ TheCall \in DOMAIN calls
    /\ calls[TheCall].pc = "ret"
    /\ LET c == calls[TheCall]
       IN rd' = [rd EXCEPT
              !.op = "none", !.ops = @ + 1, !.cur = NoOp,
              !.last = [kind |-> "read", prev |-> rd.cur.prev,
                        raised |-> c.result = "raised",
                        helper |-> rd.cur.helper, unit |-> c.unit,
                        under |-> readHoldingRegistersResult(c),
                        value |-> (rd.cur.helper :> HelperResult(rd.cur.helper, c)),
                        startConnected |-> rd.cur.startConnected,
                        idAtStart |-> rd.cur.idAtStart,
                        idAtReturn |-> client[Main].activeId,
                        connects |-> rd.cur.connects,
                        attempts |-> rd.cur.attempts,
                        failed |-> rd.cur.failed,
                        words |-> rd.cur.words]]
    /\ calls' = <<>>
    /\ UNCHANGED <<client, par, task>>

NextConn ==
    \/ CmConnect
    \/ \E ok \in BOOLEAN : CmConnectDone(ok)
    \/ \E closeRaises, stillOpen \in BOOLEAN : CmDisconnect(closeRaises, stillOpen)
    \/ \E inp \in ReadInputs, unit \in ReadUnits : CmRead(inp, unit)
    \/ CmCallConnected
    \/ CmCallRefused
    \/ \E id \in DOMAIN calls :
          \E words \in TransportData(calls[id].sentTo, calls[id].address, calls[id].count) :
              CmRespOk(words)
    \/ \E closes \in BOOLEAN : CmRespFail(closes)
    \/ CmRetry
    \/ CmReturn

\* every transport attempt, connect and timer terminates
SpecConn ==
    /\ ConnInit
    /\ [][NextConn]_vars
    /\ WF_vars(CmCallConnected \/ CmCallRefused)
    /\ WF_vars(\E closes \in BOOLEAN : CmRespFail(closes))
    /\ WF_vars(CmRetry)
    /\ WF_vars(CmReturn)

\* ------------------------------------------------ claims on the Connection Manager
LastRead == rd.last.kind = "read"

\* what the helper of the last read returned
LastValue == rd.last.value[rd.last.helper]

RetryBudget ==
    client[Main].retries >= 0 =>
    /\ \A id \in DOMAIN calls : calls[id].attempt <= client[id[1]].retries
    /\ rd.op = "read" => rd.cur.attempts <= client[Main].retries + 1
    /\ LastRead =>
          /\ rd.last.attempts <= client[Main].retries + 1
          /\ rd.last.under.success =>
                /\ rd.last.attempts >= 1
                /\ rd.last.failed = rd.last.attempts - 1
                /\ rd.last.under = [success |-> TRUE, data |-> rd.last.words,
                                    error |-> Undefined]
          /\ ~rd.last.under.success =>
                \/ /\ rd.last.connects = 1 /\ rd.last.attempts = 0
                   /\ rd.last.under.error = "Failed to connect to Modbus device"
                \/ /\ rd.last.attempts = client[Main].retries + 1
                   /\ rd.last.failed = client[Main].retries + 1

\* C12: readRegisters with retry count r makes at most r+1 transport attempts per
\* call, stops at the first success and returns its data with no trace of the
\* failed attempts, returns failure only after r+1 failed attempts or a failed
\* reconnect, and terminates whenever every transport attempt terminates.
C12_RetryBudget == []RetryBudget /\ ((rd.op = "read") ~> (rd.op = "none"))

\* a read returned success after a failed attempt
C12_Witness == LastRead /\ rd.last.under.success /\ rd.last.failed >= 1

\* no call in progress has raised and the operation that returned last handed
\* its transport failure back as a value
FailureIsAValue ==
    /\ \A id \in DOMAIN calls : calls[id].result # "raised"
    /\ rd.last.kind = "connect" => ~rd.last.raised /\ rd.last.value \in BOOLEAN
    /\ LastRead =>
          /\ ~rd.last.raised
          /\ LastValue.success \in BOOLEAN
          /\ rd.last.failed > 0 /\ ~rd.last.under.success => ~LastValue.success
          /\ rd.last.connects = 1 /\ rd.last.attempts = 0 => ~LastValue.success

\* C13: connect(), readRegisters and the typed read helpers never raise for a
\* transport failure; the failure comes back as a returned value.
C13_NeverRaises == FailureIsAValue

\* a helper returned failure after every attempt of its call was rejected
C13_Witness ==
    /\ LastRead /\ rd.last.helper # "readHoldingRegisters"
    /\ rd.last.failed >= 1 /\ rd.last.failed = client[Main].retries + 1
    /\ ~rd.last.raised /\ ~LastValue.success

\* the last read was made by a typed helper
LastTyped == LastRead /\ rd.last.helper # "readHoldingRegisters"

\* C14: each typed helper returns failure if and only if the underlying
\* readRegisters call returned failure, and then with that call's error message;
\* no ReadResult is a failure without an error message, also when the transport
\* returns fewer registers than requested.
C14_HelperFailureIffCallFailure ==
    LastTyped =>
        /\ ~LastValue.success <=> ~rd.last.under.success
        /\ ~LastValue.success =>
              /\ LastValue.error = rd.last.under.error
              /\ LastValue.error # Undefined

\* connect() is awaited by a call only before its first attempt, and by exactly
\* the calls made while the connection was not up; a call whose connect()
\* failed has sent nothing and has left the active unit id alone
ReconnectOnce ==
    /\ rd.op = "read" =>
          /\ rd.cur.connects = (IF rd.cur.startConnected THEN 0 ELSE 1)
          /\ calls[TheCall].pc = "conn" =>
                rd.cur.connects = 1 /\ rd.cur.attempts = 0 /\ rd.cur.failed = 0
          /\ calls[TheCall].result = "connfail" =>
                /\ rd.cur.attempts = 0
                /\ client[Main].activeId = rd.cur.idAtStart
    /\ LastRead =>
          /\ rd.last.connects = (IF rd.last.startConnected THEN 0 ELSE 1)
          /\ rd.last.under.error = "Failed to connect to Modbus device" =>
                rd.last.connects = 1 /\ rd.last.attempts = 0
          /\ rd.last.connects = 1 /\ rd.last.attempts = 0
                /\ client[Main].retries >= 0 =>
                rd.last.under.error = "Failed to connect to Modbus device"
          /\ rd.last.under.error = "Failed to connect to Modbus device" =>
                /\ ~rd.last.under.success
                /\ rd.last.words = <<>>
                /\ rd.last.idAtReturn = rd.last.idAtStart

\* C15: readRegisters called while not connected invokes connect() exactly once;
\* if that connect fails it returns failure with no transport read and without
\* changing the active unit id; connect() is not invoked again in the retry loop.
C15_ReconnectOnce == ReconnectOnce

\* a read for unit 1 on a connection that was not up, whose connect() failed
C15_Witness ==
    /\ LastRead /\ rd.last.unit = 1
    /\ ~rd.last.startConnected /\ rd.last.connects = 1
    /\ rd.last.under.error = "Failed to connect to Modbus device"

\* the Disconnected state of the Connection Manager
InDisconnectedState(cl) == ~cl.isConnected /\ ~isClientConnected(cl)

\* C16: disconnect() is safe in every state (never connected, connected, already
\* disconnected, underlying close raising): it never raises, after it returns
\* the Connection Manager is in the Disconnected state, and a second call in a
\* row leaves the state exactly as the first call left it.
C16_DisconnectSafe ==
    rd.last.kind = "disconnect" =>
        /\ ~rd.last.raised
        /\ InDisconnectedState(client[Main])
        /\ rd.last.prev = "disconnect" => client[Main] = rd.last.before

\* ------------------------------------------------------------------ Codec
\* The pure functions of the Codec and the two-register helpers built on them,
\* each applied once to inputs drawn from bounded sets.

\* 16-bit register words around the byte, sign and range boundaries
SampleWords == {0, 1, 2, 255, 256, 4660, 32767, 32768, 32769, 43981, 65534, 65535}

PairFunctions == {"combineU32RegistersLE", "combineI32RegistersLE", "readU32", "readI32"}

\* a readHoldingRegisters call that returned the two registers r0, r1
TwoRegisters(r0, r1) == [result |-> "success", data |-> <<r0, r1>>]

\* the longest register block and the largest maxLength decoded
MaxRegisters == 3
MaxLength == 7

\* registers holding NUL NUL, NUL "A", "A" NUL, "AB", "CD"
TextWords == {0, 65, 16640, 16706, 17220}

RegisterBlocks == UNION {[1..n -> TextWords] : n \in 0..MaxRegisters}

WordInputs ==
    {[phase |-> "codec", fn |-> f, a |-> a, b |-> b, word |-> 0,
      applied |-> FALSE, out |-> 0] :
         f \in PairFunctions, a \in SampleWords, b \in SampleWords}
    \cup {[phase |-> "codec", fn |-> "toSignedInt16", a |-> v, b |-> 0,
           word |-> 0, applied |-> FALSE, out |-> 0] : v \in -32768..32767}

StringInputs ==
    {[phase |-> "codec", fn |-> "decodeStringRegisters", registers |-> r,
      maxLength |-> m, applied |-> FALSE, out |-> <<>>] :
         r \in RegisterBlocks, m \in 0..MaxLength}

\* the Modbus device addresses
DeviceAddresses == 1..247

\* ------------------------------------------ inputs of address list parsing
\* the longest string of the exhaustive part of the inputs
MaxChars == 4

ListChars == {"0", "1", "2", "5", "-", ".", ",", " ", "a", "e", "+", "x"}

\* the examples of the source, a list out of order with a duplicate, a
\* range across the upper limit, white space of every kind, literals that
\* are rounded to a double, ranges from a fraction, and ranges up to 2^53
\* and beyond
ListExamples ==
    {<<"1", "-", "2", ",", "6", ",", "8">>,
     <<"1", "2", "-", "1", "5">>,
     <<"1", "2", ",", "1", "3", ",", "1", "4", ",", "1", "5">>,
     <<"8", ",", "6", ",", "1", "-", "2", ",", "2">>,
     <<"2", "4", "5", "-", "2", "5", "0">>,
     <<"\t", "1", "2">>, <<"1", "2", "\n">>, <<"0", "b", "1", "1">>,
     <<"1", "e", "1", "-", "1", "2">>, <<"2", "4", "E", "+", "1">>,
     <<"1", "-", "I", "n", "f", "i", "n", "i", "t", "y">>,
     <<"1", "-", "9", "0", "0", "7", "1", "9", "9", "2", "5", "4", "7", "4",
       "0", "9", "9", "2">>,
     <<"2", "-", "1", "e", "3", "0", "9">>,
     <<"2", "4", "6", "-", "1", "e", "1", "5">>,
     <<"", "1", "2">>,
     <<" ", "1", "2">>,
     <<"1", "2", "﻿">>,
     <<" ", "1", "-", "2">>,
     <<"2", "4", "7", ".", "0", "0", "0", "0", "0", "0", "0", "0", "0", "0",
       "0", "0", "0", "0", "0", "0", "1">>,
     <<"1", ".", "0", "0", "0", "0", "0", "0", "0", "0", "0", "0", "0", "0",
       "0", "0", "0", "1">>,
     <<"0", ".", "0", "0", "0", "1", "-", "3">>,
     <<"0", ".", "0", "0", "0", "0", "0", "0", "0", "0", "0", "0", "0", "0",
       "0", "0", "0", "1", "-", "2">>,
     <<"9", "0", "0", "7", "1", "9", "9", "2", "5", "4", "7", "4", "0", "9",
       "9", "0", "-", "9", "0", "0", "7", "1", "9", "9", "2", "5", "4", "7",
       "4", "0", "9", "9", "1", ".", "5">>,
     <<"1", ".", "7", "9", "7", "6", "9", "3", "1", "3", "4", "8", "6", "2",
       "3", "1", "5", "8", "e", "3", "0", "8", "-", "1", "e", "3", "0", "9">>,
     <<"5", "e", "-", "3", "2", "4", ",", "2", ".", "5", "e", "-", "3", "2", "4", ",", "3">>,
     <<"0", ".", "5", "-", "2">>}

ListFunctions == {"parseAddressList", "parseDiscoveryRange"}

ListInput(f, str) ==
    [phase |-> "codec", fn |-> f, str |-> str, applied |-> FALSE, out |-> <<>>]

\* every string of up to MaxChars characters, and the examples
ListInputs ==
    \/ \E f \in ListFunctions, n \in 0..MaxChars :
          \E str \in [1..n -> ListChars] : rd = ListInput(f, str)
    \/ \E f \in ListFunctions, str \in ListExamples : rd = ListInput(f, str)

\* two device addresses, and the remap registers read for the first
RemapInputs ==
    {[phase |-> "codec", fn |-> "calculateInverterBaseAddress", a |-> a, b |-> b,
      applied |-> FALSE, out |-> 0, other |-> 0, read |-> {}] :
         a \in DeviceAddresses, b \in DeviceAddresses}

\* the registers a sequence of groups of calls reads
RegistersRead(groups) ==
    UNION {UNION {groups[g][i].address..(groups[g][i].address + groups[g][i].count - 1) :
                     i \in 1..Len(groups[g])} : g \in 1..Len(groups)}

\* alarm words: none, bit 0, bits 1 8 14, bit 15, the odd bits, all bits
AlarmWords == {0, 1, 16642, 32768, 43690, 65535}

AlarmInputs ==
    {[phase |-> "codec", fn |-> "readAlarms", registers |-> <<a1, a2, a3>>,
      applied |-> FALSE, out |-> <<>>] :
         a1 \in AlarmWords, a2 \in AlarmWords, a3 \in AlarmWords}

\* a readHoldingRegisters call that returned the registers `data`
ReturnedRegisters(data) == [result |-> "success", data |-> data]

\* the results of the four reads of one scanned unit: a name, and a status
\* word, a port and a sub-address that are read or not
StatusWords == {45057, 45056, 0, 45058, 65535}

\* a failed readU16 (its data is not looked at) and the successful ones
U16Results(values) ==
    {[success |-> FALSE, data |-> 0, error |-> "error"]}
    \cup {[success |-> TRUE, data |-> v, error |-> Undefined] : v \in values}

DeviceInfoInputs ==
    {[phase |-> "codec", fn |-> "deviceInfo", unitId |-> 12,
      name |-> [success |-> TRUE, data |-> <<83, 85, 78>>, error |-> Undefined],
      status |-> status, port |-> port, addr |-> addr,
      applied |-> FALSE, out |-> <<>>, other |-> <<>>] :
         status \in U16Results(StatusWords), port \in U16Results({0, 3}),
         addr \in U16Results({1, 12})}

CodecInit ==
    /\ \/ rd \in WordInputs
       \/ rd \in DeviceInfoInputs
       \/ rd \in StringInputs
       \/ rd \in RemapInputs
       \/ rd \in AlarmInputs
       \/ ListInputs
    /\ client = <<>>
    /\ calls = <<>>
    /\ par = [pc |-> "off"]
    /\ task = <<>>

CodecPending(f) == rd.phase = "codec" /\ rd.fn = f /\ ~rd.applied

ApplyCombineU32 ==
    /\ CodecPending("combineU32RegistersLE")
    /\ rd' = [rd EXCEPT !.applied = TRUE, !.out = combineU32RegistersLE(rd.a, rd.b)]
    /\ UNCHANGED <<client, calls, par, task>>

ApplyCombineI32 ==
    /\ CodecPending("combineI32RegistersLE")
    /\ rd' = [rd EXCEPT !.applied = TRUE, !.out = combineI32RegistersLE(rd.a, rd.b)]
    /\ UNCHANGED <<client, calls, par, task>>

\* readU32 / readI32 of the consecutive registers r0 = rd.a and r1 = rd.b
ApplyReadU32 ==
    /\ CodecPending("readU32")
    /\ rd' = [rd EXCEPT !.applied = TRUE,
                        !.out = readU32Result(TwoRegisters(rd.a, rd.b)).data]
    /\ UNCHANGED <<client, calls, par, task>>

ApplyReadI32 ==
    /\ CodecPending("readI32")
    /\ rd' = [rd EXCEPT !.applied = TRUE,
                        !.out = readI32Result(TwoRegisters(rd.a, rd.b)).data]
    /\ UNCHANGED <<client, calls, par, task>>

\* the int16 rd.a as the 16-bit word that carries it, and that word decoded
ApplyToSigned16 ==
    /\ CodecPending("toSignedInt16")
    /\ rd' = [rd EXCEPT !.applied = TRUE, !.word = rd.a % 65536,
                        !.out = toSignedInt16(rd.a % 65536)]
    /\ UNCHANGED <<client, calls, par, task>>

ApplyDecodeString ==
    /\ CodecPending("decodeStringRegisters")
    /\ rd' = [rd EXCEPT !.applied = TRUE,
                        !.out = decodeStringRegisters(rd.registers, rd.maxLength)]
    /\ UNCHANGED <<client, calls, par, task>>

ApplyBaseAddress ==
    /\ CodecPending("calculateInverterBaseAddress")
    /\ rd' = [rd EXCEPT !.applied = TRUE,
                        !.out = calculateInverterBaseAddress(rd.a),
                        !.other = calculateInverterBaseAddress(rd.b),
                        !.read = RegistersRead(RemapGroups(rd.a))]
    /\ UNCHANGED <<client, calls, par, task>>

\* readAlarms on the three alarm registers: its alarmTexts
ApplyReadAlarms ==
    /\ CodecPending("readAlarms")
    /\ rd' = [rd EXCEPT !.applied = TRUE,
                        !.out = readAlarms(ReturnedRegisters(rd.registers))["alarmTexts"]]
    /\ UNCHANGED <<client, calls, par, task>>

ApplyParseAddressList ==
    /\ CodecPending("parseAddressList")
    /\ \E out \in {parseAddressList(rd.str)} :
          rd' = IF out = <<NeverEnds>> THEN [rd EXCEPT !.phase = "never returns"]
                ELSE [rd EXCEPT !.applied = TRUE, !.out = out]
    /\ UNCHANGED <<client, calls, par, task>>

ApplyParseDiscoveryRange ==
    /\ CodecPending("parseDiscoveryRange")
    /\ \E out \in {parseDiscoveryRange(rd.str)} :
          rd' = IF out = <<NeverEnds>> THEN [rd EXCEPT !.phase = "never returns"]
                ELSE [rd EXCEPT !.applied = TRUE, !.out = out]
    /\ UNCHANGED <<client, calls, par, task>>

\* the DeviceInfo sequential and parallel discovery build from the same reads
ApplyDeviceInfo ==
    /\ CodecPending("deviceInfo")
    /\ rd' = [rd EXCEPT
          !.applied = TRUE,
          !.out = SequentialDeviceInfo(rd.unitId, rd.name, rd.status, rd.port, rd.addr),
          !.other = ParallelDeviceInfo(rd.unitId, rd.name, rd.status, rd.port, rd.addr)]
    /\ UNCHANGED <<client, calls, par, task>>

NextCodec ==
    \/ ApplyDeviceInfo
    \/ ApplyDecodeString
    \/ ApplyParseAddressList
    \/ ApplyParseDiscoveryRange
    \/ ApplyReadAlarms
    \/ ApplyBaseAddress
    \/ ApplyCombineU32
    \/ ApplyCombineI32
    \/ ApplyReadU32
    \/ ApplyReadI32
    \/ ApplyToSigned16

SpecCodec == CodecInit /\ [][NextCodec]_vars

\* ------------------------------------------------------- claims on the Codec
Applied(f) == rd.phase = "codec" /\ rd.fn = f /\ rd.applied

\* bits 0..15 and bits 16..31 of a 32-bit value
Low16(n) == n % 65536
High16(n) == (n \div 65536) % 65536

\* C17: for consecutive registers r0 (first) and r1, readU32 and readI32 place r0
\* in the low 16 bits and r1 in the high 16 bits of the result (r1 * 2^16 + r0).
C17_FirstRegisterIsLowWord ==
    Applied("readU32") \/ Applied("readI32") =>
        Low16(rd.out) = rd.a /\ High16(rd.out) = rd.b

\* C18: the unsigned combine returns the bit pattern (lo << 16) | hi read as an
\* unsigned integer, so a value in [0, 2^32 - 1], also when bit 15 of lo is set.
C18_UnsignedCombineInRange ==
    Applied("combineU32RegistersLE") =>
        /\ rd.out >= 0
        /\ High16(rd.out) = rd.a /\ Low16(rd.out) = rd.b

\* C19: the signed combine returns the two's-complement reading of the bit
\* pattern (lo << 16) | hi: the value in [-2^31, 2^31 - 1] whose low 16 bits are
\* hi and whose next 16 bits are lo, negative exactly when bit 15 of lo is set.
C19_SignedCombineTwosComplement ==
    Applied("combineI32RegistersLE") =>
        /\ rd.out \div 65536 \in -32768..32767
        /\ High16(rd.out) = rd.a /\ Low16(rd.out) = rd.b
        /\ rd.out < 0 <=> rd.a >= 32768

\* a signed combine whose low word has bit 15 set
C19_Witness ==
    /\ Applied("combineI32RegistersLE")
    /\ rd.a = 32768 /\ rd.b = 1 /\ rd.out = ((-32768) * 65536) + 1

\* C20: toSigned16(v mod 2^16) = v for every int16 v, and the result lies in
\* [-32768, 32767] for every 16-bit word.
C20_ToSigned16RoundTrip ==
    Applied("toSignedInt16") =>
        /\ rd.word \in 0..65535
        /\ rd.out \in -32768..32767
        /\ rd.out = rd.a

\* the most negative int16, carried by the word 0x8000
C20_Witness ==
    Applied("toSignedInt16") /\ rd.a = -32768 /\ rd.word = 32768 /\ rd.out = -32768

\* the characters of a register block: high byte, then low byte, of each register
CharAt(registers, i) ==
    IF i % 2 = 1 THEN registers[(i + 1) \div 2] \div 256 ELSE registers[i \div 2] % 256

\* C21: decodeString returns each register's high byte followed by its low byte,
\* cut to the first maxLen characters, with all trailing NULs then removed: the
\* result is a prefix of the cut string, everything cut off behind it is NUL, it
\* is no longer than maxLen and never ends in NUL; "ABCD" decodes to "ABCD" and
\* all-zero registers to the empty string.
C21_DecodeString ==
    Applied("decodeStringRegisters") =>
        LET cut == Min(rd.maxLength, 2 * Len(rd.registers))
        IN /\ Len(rd.out) <= cut /\ Len(rd.out) <= rd.maxLength
           /\ \A i \in 1..Len(rd.out) : rd.out[i] = CharAt(rd.registers, i)
           /\ \A i \in (Len(rd.out) + 1)..cut : CharAt(rd.registers, i) = 0
           /\ rd.out # <<>> => rd.out[Len(rd.out)] # 0
           /\ rd.registers = <<16706, 17220>> /\ rd.maxLength >= 4 =>
                 rd.out = <<65, 66, 67, 68>>
           /\ (\A k \in 1..Len(rd.registers) : rd.registers[k] = 0) => rd.out = <<>>

\* "A" NUL "AB" cut to two characters: the NUL the cut exposes is removed
C21_Witness ==
    /\ Applied("decodeStringRegisters")
    /\ rd.registers = <<16640, 16706>> /\ rd.maxLength = 2 /\ rd.out = <<65>>

\* the remap offsets the Device Data Reader reads: 0..8, 9, 11 and 12..17
RemapOffsets == (0..9) \cup (11..17)

\* C22: for distinct device addresses a and b in [1, 247] the register ranges
\* base(a)..base(a)+24 and base(b)..base(b)+24 do not overlap, and every remap
\* register read for a device (offsets 0..8, 9, 11, 12..17) is in its own range.
C22_RemapRangesDisjoint ==
    Applied("calculateInverterBaseAddress") =>
        /\ rd.a # rd.b => (rd.out..(rd.out + 24)) \cap (rd.other..(rd.other + 24)) = {}
        /\ rd.a < rd.b => rd.out + 24 < rd.other
        /\ rd.read = {rd.out + o : o \in RemapOffsets}
        /\ rd.read \subseteq rd.out..(rd.out + 24)

\* the last two device addresses: the ranges 57125..57149 and 57150..57174
C22_Witness ==
    /\ Applied("calculateInverterBaseAddress")
    /\ rd.a = 246 /\ rd.b = 247 /\ rd.out = 57125 /\ rd.other = 57150
    /\ 57142 \in rd.read

\* the bit positions set in a 16-bit word
BitsSet(w) == {b \in 0..15 : (w \div (2 ^ b)) % 2 = 1}

\* the alarm tables, by register
AlarmTable == <<Alarm1Texts, Alarm2Texts, Alarm3Texts>>

\* the place in the text list of bit b of register r: behind every set bit of
\* the registers before r and every lower set bit of r
TextPlace(words, r, b) ==
    LET F[k \in 0..3] == IF k = 0 THEN 0 ELSE F[k - 1] + Cardinality(BitsSet(words[k]))
    IN F[r - 1] + Cardinality({x \in BitsSet(words[r]) : x < b}) + 1

\* C23: for every triple of alarm words the decoded text list has one entry per
\* set bit (popcount(a1) + popcount(a2) + popcount(a3) entries), each the table
\* text of its register and bit, ordered register 1, 2, 3 and by ascending bit
\* within a register, determined by the three words alone; for a1 = 16642 and
\* a2 = a3 = 0 it is exactly the texts of bits 1, 8 and 14 of register 1.
C23_AlarmDecode ==
    Applied("readAlarms") =>
        /\ Len(rd.out) = Cardinality(BitsSet(rd.registers[1]))
                         + Cardinality(BitsSet(rd.registers[2]))
                         + Cardinality(BitsSet(rd.registers[3]))
        /\ \A r \in 1..3 : \A b \in BitsSet(rd.registers[r]) :
              rd.out[TextPlace(rd.registers, r, b)] = AlarmTable[r][b + 1]
        /\ rd.registers = <<16642, 0, 0>> =>
              rd.out = <<"DC Arc Fault (Major)", "Grid Undervoltage (Major)",
                         "Output Overcurrent (Major)">>

\* bits in all three registers: register 1 bits 1, 8, 14, then bit 0 of
\* register 2, then bit 15 of register 3
C23_Witness ==
    /\ Applied("readAlarms") /\ rd.registers = <<16642, 1, 32768>>
    /\ rd.out = <<"DC Arc Fault (Major)", "Grid Undervoltage (Major)",
                  "Output Overcurrent (Major)", "Abnormal Residual Current (Major)",
                  "Low Battery Discharge Capacity (Warning)">>

\* the entry was returned by a run that asked for 'alarms', read the alarm
\* registers successfully and met no unexpected error
AlarmsRead ==
    /\ Returned
    /\ "alarms" \in rd.cats /\ "alarms" \in rd.okReads /\ ~rd.threw[Len(rd.threw)]

NoAlarmBit(rec) == rec["alarm1"] = 0 /\ rec["alarm2"] = 0 /\ rec["alarm3"] = 0

\* C24: when 'alarms' is requested and the alarm registers are read successfully,
\* with the toggle true the record always contains alarmTexts (the empty list
\* when all three alarm words are 0), and with the toggle false it contains
\* alarmTexts if and only if at least one alarm bit is set (checked on each
\* entry when it is returned).
C24_AlarmTextsToggle ==
    AlarmsRead =>
        LET rec == LastEntry
        IN /\ {"alarm1", "alarm2", "alarm3"} \subseteq DOMAIN rec
           /\ rd.alwaysIncludeAlarmTexts =>
                 /\ "alarmTexts" \in DOMAIN rec
                 /\ NoAlarmBit(rec) <=> rec["alarmTexts"] = <<>>
           /\ ~rd.alwaysIncludeAlarmTexts =>
                 ("alarmTexts" \in DOMAIN rec <=> ~NoAlarmBit(rec))

\* readFromDiscovery of the inverter at unit 13, toggle on: the alarm
\* registers were read, no bit is set, and alarmTexts is the empty list
C24_Witness ==
    /\ rd.unitIds = <<13>>
    /\ rd.alwaysIncludeAlarmTexts
    /\ AlarmsRead
    /\ NoAlarmBit(LastEntry)
    /\ LastEntry["alarmTexts"] = <<>>

\* a string of one or more decimal digits, white space around it allowed
IsInteger(str) ==
    LET t == Trim(str) IN t # <<>> /\ \A i \in 1..Len(t) : IsDigit(t[i])

\* the integers in [1, 247] that a well-formed token names: a single integer,
\* or start-end with start <= end; any other token names nothing
TokenNames(token) ==
    LET bounds == Split(token, "-")
    IN IF IsInteger(token) THEN {DigitsValue(Trim(token))} \cap DeviceAddresses
       ELSE IF Len(bounds) = 2 /\ IsInteger(bounds[1]) /\ IsInteger(bounds[2])
       THEN {i \in DeviceAddresses :
                DigitsValue(Trim(bounds[1])) <= i /\ i <= DigitsValue(Trim(bounds[2]))}
       ELSE {}

ListNames(str) ==
    LET parts == Split(str, ",") IN UNION {TokenNames(parts[k]) : k \in 1..Len(parts)}

\* C25: for every input string parseAddressList and parseDiscoveryRange return a
\* strictly increasing, duplicate-free list of exactly the integers in [1, 247]
\* named by the well-formed tokens; a malformed token ("abc", "5-1", "-5",
\* "1.5") contributes nothing and leaves the other tokens' contribution alone.
C25_AddressListParsing ==
    Applied("parseAddressList") \/ Applied("parseDiscoveryRange") =>
        /\ \A k \in 1..Len(rd.out) : rd.out[k].frac = <<>>
        /\ \A k \in 1..(Len(rd.out) - 1) : rd.out[k].int < rd.out[k + 1].int
        /\ {rd.out[k].int : k \in 1..Len(rd.out)} = ListNames(rd.str)

\* ------------------------------------------------------------- PV strings
\* readPVStrings(deviceAddress, stringCount) on a connected client: the string
\* count is the one supplied, or else the one read from register 30071, or
\* else 4; the strings are read in batches of 10, one transport call after
\* the other.

\* the string counts readPVStrings is called with: 0 stands for a count that
\* is not supplied (undefined, or a falsy 0)
SuppliedCounts == {0, 1, 10, 11, 24, 25}

\* what the transport hands back for a batch: the registers asked for, all
\* but the last one, or none
BatchData(unit, address, count) ==
    {SubSeq(w, 1, n) : w \in ResponseData(unit, address, count),
                       n \in {0, count - 1, count}}

\* rd.reported is the value read from the string-count register (-1: not
\* read), rd.detected the count readPVStrings makes of it
PvInit ==
    /\ calls = <<>>
    /\ client = (Main :> Connected(NewClient(RemapUnit, MaxRetries)))
    /\ \E n \in SuppliedCounts :
          rd = [phase |-> "pv", pc |-> "start", deviceAddress |-> 1,
                supplied |-> n, reported |-> -1, detected |-> 0,
                stringCount |-> 0, i |-> 0,
                requests |-> <<>>, strings |-> <<>>]
    /\ par = [pc |-> "off"]
    /\ task = <<>>

\* if (!stringCount) detectedStringCount = await readNumberOfStrings(...)
PvDetect ==
    /\ rd.phase = "pv" /\ rd.pc = "start" /\ rd.supplied = 0
    /\ IssueGroup(Main, <<NewCall("numberOfStrings", 30071, 1, rd.deviceAddress)>>)
    /\ rd' = [rd EXCEPT !.pc = "detect"]
    /\ UNCHANGED <<par, task>>

\* the detected count is used when it is not null and above 0, else 4
PvDetected ==
    /\ rd.phase = "pv" /\ rd.pc = "detect" /\ AllReturned(Main)
    /\ LET r == readU16Result(calls[<<Main, 1>>])
           n == IF r.success /\ r.data > 0 THEN r.data ELSE 4
       IN rd' = [rd EXCEPT !.pc = "loop", !.detected = n,
                           !.reported = IF r.success THEN r.data ELSE -1,
                           !.stringCount = clampStringCount(n)]
    /\ calls' = WithCalls(CallsOf(Main), <<>>)
    /\ UNCHANGED <<client, par, task>>

\* a supplied count is used as it is
PvSupplied ==
    /\ rd.phase = "pv" /\ rd.pc = "start" /\ rd.supplied # 0
    /\ rd' = [rd EXCEPT !.pc = "loop", !.stringCount = clampStringCount(rd.supplied)]
    /\ UNCHANGED <<client, calls, par, task>>

\* for (let i = 0; i < stringCount; i += batchSize): the read of one batch
PvIssue ==
    /\ rd.phase = "pv" /\ rd.pc = "loop" /\ rd.i < rd.stringCount
    /\ LET c == NewCall("pvStrings", startRegister(rd.i),
                        remainingStrings(rd.stringCount, rd.i) * 2, rd.deviceAddress)
       IN /\ IssueGroup(Main, <<c>>)
          /\ rd' = [rd EXCEPT !.pc = "wait",
                              !.requests = Append(@, [address |-> c.address,
                                                      count |-> c.count,
                                                      unit |-> c.unit])]
    /\ UNCHANGED <<par, task>>

\* the batch has returned: its strings are pushed and the loop goes on
PvJoin ==
    /\ rd.phase = "pv" /\ rd.pc = "wait" /\ AllReturned(Main)
    /\ LET r == readHoldingRegistersResult(calls[<<Main, 1>>])
       IN rd' = [rd EXCEPT !.pc = "loop", !.i = rd.i + batchSize,
                           !.strings = @ \o BatchStrings(r, rd.stringCount, rd.i)]
    /\ calls' = WithCalls(CallsOf(Main), <<>>)
    /\ UNCHANGED <<client, par, task>>

\* return strings
PvReturn ==
    /\ rd.phase = "pv" /\ rd.pc = "loop" /\ rd.i >= rd.stringCount
    /\ rd' = [rd EXCEPT !.pc = "done"]
    /\ UNCHANGED <<client, calls, par, task>>

\* the device answers a request
PvRespOk(id) ==
    /\ \E words \in BatchData(calls[id].sentTo, calls[id].address, calls[id].count) :
          AttemptSucceeded(id, words)
    /\ UNCHANGED <<rd, par, task>>

NextPv ==
    \/ PvDetect
    \/ PvDetected
    \/ PvSupplied
    \/ PvIssue
    \/ PvJoin
    \/ PvReturn
    \/ \E id \in DOMAIN calls : ConnectOk(id)
    \/ \E id \in DOMAIN calls : ConnectFail(id)
    \/ \E id \in DOMAIN calls : PvRespOk(id)
    \/ \E id \in DOMAIN calls, closes \in BOOLEAN : RespFail(id, closes)
    \/ \E id \in DOMAIN calls : Retry(id)

SpecPv == PvInit /\ [][NextPv]_vars

\* the string count readPVStrings works with, before it is limited
PvCount == IF rd.supplied # 0 THEN rd.supplied ELSE rd.detected

\* the number of strings the requests made so far ask for
RECURSIVE RegistersRequested(_)
RegistersRequested(requests) ==
    IF requests = <<>> THEN 0
    ELSE requests[1].count + RegistersRequested(Tail(requests))

\* C26: for every supplied or detected string count n >= 1 readPVStrings
\* requests min(n, 24) strings; every transport call asks for at most 20
\* registers; the calls cover consecutive ranges that do not overlap and start
\* at register 32016, the first PV string register; and the result never has
\* more than 24 entries.
C26_PVStringBatches ==
    (rd.pc \in {"loop", "wait", "done"} /\ PvCount >= 1) =>
        /\ rd.stringCount = Min(PvCount, 24)
        /\ \A k \in 1..Len(rd.requests) :
              /\ rd.requests[k].count >= 2
              /\ rd.requests[k].count <= 20
              /\ rd.requests[k].address =
                    32016 + RegistersRequested(SubSeq(rd.requests, 1, k - 1))
        /\ RegistersRequested(rd.requests) <= 2 * Min(PvCount, 24)
        /\ rd.pc = "done" => RegistersRequested(rd.requests) = 2 * Min(PvCount, 24)
        /\ Len(rd.strings) <= 24
        /\ \A k \in 1..Len(rd.strings) : rd.strings[k].stringNumber \in 1..24
        /\ \A k \in 1..(Len(rd.strings) - 1) :
              rd.strings[k].stringNumber < rd.strings[k + 1].stringNumber

\* a count above the limit has been read in three calls of 20, 20 and 8
\* registers and all 24 strings are returned
C26_Witness ==
    /\ rd.pc = "done"
    /\ rd.supplied = 25
    /\ Len(rd.requests) = 3
    /\ rd.requests[3] = [address |-> 32056, count |-> 8, unit |-> 1]
    /\ Len(rd.strings) = 24

\* ------------------------------------------- unit-id overrides of the reader
RemapReads == {"remapPower", "remapStatus", "remapTemp", "remapFault"}

\* call c of the reader, made for device d, carries the override its block
\* requires
OverrideAsRequired(c, d) ==
    /\ c.unit # NoUnit
    /\ IF c.name \in RemapReads
       THEN /\ c.unit = 0
            /\ \E offset \in 0..24 : c.address = 51000 + (25 * (d - 1)) + offset
       ELSE c.unit = d

\* C27: every read of the remap block carries unit-id override 0 and an
\* address 51000 + 25 * (deviceAddress - 1) + offset, every direct-register
\* read carries the device's own address as override, and no read is issued
\* without an override: for the reads in flight, and for every read the
\* current device's schedule holds with all categories selected.
C27_ExplicitOverrides ==
    rd.di <= Len(rd.devices) =>
        LET d == rd.devices[rd.di]
            all == ReadSchedule(d, Range(CategoryOrder),
                                PvGroups(d, rd.result, rd.stringCount))
        IN /\ \A id \in DOMAIN calls :
                 OverrideAsRequired(calls[id],
                                    IF Len(id) = 3 THEN rd.devices[id[3]] ELSE d)
           /\ \A g \in DOMAIN all : \A i \in DOMAIN all[g] :
                 OverrideAsRequired(all[g][i], d)

\* readFromDiscovery of the device with unit id 13 and sub-address 1: its
\* phase currents are being read with override 1, the sub-address, after the
\* remapped power block was read with override 0
C27_Witness ==
    /\ rd.di <= Len(rd.devices)
    /\ rd.unitIds[rd.di] = 13 /\ rd.devices[rd.di] = 1
    /\ \E id \in DOMAIN calls :
          /\ calls[id].name = "phaseCurrents"
          /\ calls[id].pc = "wait"
          /\ calls[id].unit = 1
          /\ calls[id].sentTo = 1
    /\ "remapPower" \in rd.okReads

\* ------------------------------------------------- categories of the record
\* the category the output reference ('Data Categories') lists a field under,
\* "none" for a field it lists under no category
ListedCategory(field) ==
    CASE field \in {"model", "serialNumber", "firmwareVersion", "numberOfStrings",
                    "ratedPower"} -> "device"
      [] field \in {"activePower", "reactivePower", "inputPower", "powerFactor",
                    "efficiency", "peakPowerToday", "dailyEnergyYield",
                    "totalEnergyYield"} -> "power"
      [] field \in {"gridVoltageUAB", "gridVoltageUBC", "gridVoltageUCA",
                    "phaseAVoltage", "phaseBVoltage", "phaseCVoltage"} -> "voltages"
      [] field \in {"phaseACurrent", "phaseBCurrent", "phaseCCurrent",
                    "gridFrequency"} -> "currents"
      [] field = "pvStrings" -> "strings"
      [] field \in {"deviceStatus", "deviceStatusText", "runningStatus",
                    "internalTemperature", "insulationResistance"} -> "status"
      [] field \in {"alarm1", "alarm2", "alarm3", "alarmTexts", "faultCode"} -> "alarms"
      [] OTHER -> "none"

\* C28: category selection is a frame condition on the record: a returned
\* record contains a field that the output reference lists under a category
\* only if that category was requested.
C28_CategoryFrame ==
    \A i \in 1..Len(rd.results) :
        \A field \in DOMAIN rd.results[i] :
            ListedCategory(field) # "none" => ListedCategory(field) \in rd.cats

\* ------------------------------------------------ errors inside a category
\* this step is the return of a readInverterData in which a category threw
CategoryThrew ==
    /\ Len(rd'.threw) = Len(rd.threw) + 1
    /\ rd'.threw[Len(rd'.threw)]

\* C29: when an unexpected error is thrown while a category is being read,
\* readInverterData does not raise: it returns a record, which holds every
\* field merged before the error, with its value, and an error string.
C29_ErrorKeepsMergedFields ==
    [][CategoryThrew =>
          /\ Len(rd'.results) = Len(rd.results) + 1
          /\ LET record == rd'.results[Len(rd'.results)]
             IN /\ \A field \in DOMAIN rd.result :
                      field \in DOMAIN record /\ record[field] = rd.result[field]
                /\ "error" \in DOMAIN record
                /\ record["error"] = "error.message"]_vars

\* readFromDiscovery of the device without a name, retries 3: the
\* 'voltages' category threw after the remapped block was merged, and the
\* record holds the fields of the block and the error, and no deviceName
C29_Witness ==
    \E i \in 1..Len(rd.results) :
        /\ rd.threw[i]
        /\ rd.names[i] = <<>> /\ rd.unitIds[i] = 12
        /\ rd.cats = {"voltages"}
        /\ client[Main].retries = DiscoveryReadRetries
        /\ {"error", "activePower", "status"} \subseteq DOMAIN rd.results[i]
        /\ "deviceName" \notin DOMAIN rd.results[i]

\* --------------------------------------------------- one device at a time
\* the device a read of the reader is made for: the owner of the 25-register
\* block for a remapped read, the unit-id override for a direct read
DeviceOf(c) ==
    IF c.name \in RemapReads THEN ((c.address - 51000) \div 25) + 1 ELSE c.unit

Completed(id) == calls[id].pc = "ret"

\* this step issues requests
IssuesRequests ==
    \E id \in DOMAIN calls' :
        /\ Len(id) = 2
        /\ calls'[id].pc \in {"conn", "wait"}
        /\ id \in DOMAIN calls => Completed(id)

\* this step ends the reader's await of the reads it issued
AwaitEnds == rd.phase = "wait" /\ rd'.phase # "wait"

\* C30: readMultipleInverters reads the devices strictly one after another on
\* the shared connection: every request on the connection belongs to the
\* device being read, and the reader ends an await, issues requests and moves
\* to the next device only when every request issued so far has completed,
\* so requests of two devices are never in flight together.
C30_OneDeviceAtATime ==
    /\ [](\A id \in DOMAIN calls :
             /\ rd.di <= Len(rd.devices)
             /\ DeviceOf(calls[id]) = rd.devices[rd.di])
    /\ [][(IssuesRequests \/ AwaitEnds \/ rd'.di # rd.di) =>
              \A id \in DOMAIN calls : Completed(id)]_vars

\* the first device's record has been pushed and a read of the second device
\* is awaiting its response
C30_Witness ==
    /\ Len(rd.devices) = 2
    /\ rd.di = 2
    /\ Len(rd.results) = 1
    /\ \E id \in DOMAIN calls :
          /\ calls[id].pc = "wait"
          /\ DeviceOf(calls[id]) = rd.devices[2]

\* ---------------------------------------------------- sequential discovery
\* discoverAllDevices(unitRange) and discoverInverters(unitRange) on the
\* caller's shared connection: for each unit the name is read, and for a unit
\* with a name (discoverInverters: a name that includes 'SUN2000') the
\* connection status, the port and the sub-address are read together.

SeqScans == {"discoverAllDevices", "discoverInverters"}

SeqInit ==
    /\ client = (Main :> Connected(NewClient(3, MaxRetries)))
    /\ calls = <<>>
    /\ \E scan \in SeqScans : \E r \in ScanRanges(scan) :
          rd = [phase |-> "seq", pc |-> "loop", scan |-> scan, unitRange |-> r,
                i |-> 0, nameRead |-> NoRead, discovered |-> <<>>]
    /\ par = [pc |-> "off"]
    /\ task = <<>>

\* the unit the loop is at
SeqUnit == rd.unitRange[rd.i + 1]

\* for (const unitId of unitRange): await this.readDeviceName(unitId)
SeqName ==
    /\ rd.phase = "seq" /\ rd.pc = "loop" /\ rd.i < Len(rd.unitRange)
    /\ LET target == targetUnitId(SeqUnit, client[Main].unitId)
       IN IssueGroup(Main, <<NameCall(target)>>)
    /\ rd' = [rd EXCEPT !.pc = "name", !.nameRead = NoRead]
    /\ UNCHANGED <<par, task>>

\* the name read returned: a name the scan accepts issues the three info
\* reads together; no name, an empty name, with discoverInverters a name
\* without 'SUN2000', or an error (caught: continue) moves to the next unit
SeqNameJoin(raises) ==
    /\ rd.phase = "seq" /\ rd.pc = "name" /\ AllReturned(Main)
    /\ raises => calls[<<Main, 1>>].result = "success"
    /\ LET name == readStringResult(calls[<<Main, 1>>], 20)
           target == targetUnitId(SeqUnit, client[Main].unitId)
       IN IF ~raises /\ ScanAccepts(rd.scan, name)
          THEN /\ IssueGroup(Main, InfoCalls(target))
               /\ rd' = [rd EXCEPT !.pc = "info", !.nameRead = name]
          ELSE /\ calls' = WithCalls(CallsOf(Main), <<>>)
               /\ rd' = [rd EXCEPT !.pc = "loop", !.i = rd.i + 1]
               /\ UNCHANGED client
    /\ UNCHANGED <<par, task>>

\* Promise.all of the three info reads returned: discovered.push({...})
SeqInfoJoin ==
    /\ rd.phase = "seq" /\ rd.pc = "info" /\ AllReturned(Main)
    /\ LET status == readU16Result(calls[<<Main, 1>>])
           port == readU16Result(calls[<<Main, 2>>])
           addr == readU16Result(calls[<<Main, 3>>])
       IN rd' = [rd EXCEPT
              !.pc = "loop", !.i = rd.i + 1,
              !.discovered = Append(@, SequentialDeviceInfo(SeqUnit, rd.nameRead,
                                                            status, port, addr))]
    /\ calls' = WithCalls(CallsOf(Main), <<>>)
    /\ UNCHANGED <<client, par, task>>

\* return discovered (return inverters)
SeqReturn ==
    /\ rd.phase = "seq" /\ rd.pc = "loop" /\ rd.i >= Len(rd.unitRange)
    /\ rd' = [rd EXCEPT !.pc = "done"]
    /\ UNCHANGED <<client, calls, par, task>>

NextSeq ==
    \/ SeqName
    \/ \E raises \in BOOLEAN : SeqNameJoin(raises)
    \/ SeqInfoJoin
    \/ SeqReturn
    \/ \E id \in DOMAIN calls : ConnectOk(id)
    \/ \E id \in DOMAIN calls : ConnectFail(id)
    \/ \E id \in DOMAIN calls :
          \E words \in ResponseData(calls[id].sentTo, calls[id].address, calls[id].count) :
              RespOk(id, words)
    \/ \E id \in DOMAIN calls, closes \in BOOLEAN : RespFail(id, closes)
    \/ \E id \in DOMAIN calls : Retry(id)

SpecSeq == SeqInit /\ [][NextSeq]_vars

InfoReads == {"connectionStatus", "portNumber", "deviceAddress"}

\* this step issues the additional reads of a unit
IssuesInfoReads ==
    /\ \E id \in DOMAIN calls' : calls'[id].name \in InfoReads
    /\ \A id \in DOMAIN calls : calls[id].name \notin InfoReads

\* this step ends an await of the scan
ScanAwaitEnds == rd.pc \in {"name", "info"} /\ rd'.pc # rd.pc

\* C31: sequential discovery scans one unit at a time: every request on the
\* connection is for the unit the loop is at, the scan ends an await, issues
\* requests and moves to the next unit only when every request issued so far
\* has completed, and the additional reads of a unit are issued only after
\* its name read returned a non-empty name.
C31_OneUnitAtATime ==
    /\ [](\A id \in DOMAIN calls :
             /\ rd.i < Len(rd.unitRange)
             /\ calls[id].unit = SeqUnit)
    /\ [][(IssuesRequests \/ ScanAwaitEnds \/ rd'.i # rd.i) =>
              \A id \in DOMAIN calls : Completed(id)]_vars
    /\ [][IssuesInfoReads =>
              /\ calls[<<Main, 1>>].name = "deviceName"
              /\ calls[<<Main, 1>>].result = "success"
              /\ decodeStringRegisters(calls[<<Main, 1>>].data, 20) # <<>>]_vars

\* the second unit's info reads are in flight after the first unit was
\* scanned and pushed
C31_Witness ==
    /\ rd.phase = "seq"
    /\ rd.i = 1
    /\ Len(rd.discovered) = 1
    /\ \E id \in DOMAIN calls :
          /\ calls[id].name = "portNumber"
          /\ calls[id].pc = "wait"
          /\ calls[id].unit = 13

\* ------------------------------------------------ order of the reader's reads
\* the block of readInverterData a read belongs to
ReadBlock(name) ==
    CASE name \in RemapReads -> "remap"
      [] name \in {"model", "serialNumber", "firmwareVersion", "numberOfStrings",
                   "ratedPower"} -> "device"
      [] name \in {"peakPowerToday", "dailyEnergyYield", "totalEnergyYield",
                   "efficiency"} -> "power"
      [] name \in {"lineVoltages", "phaseVoltages"} -> "voltages"
      [] name \in {"phaseCurrents", "gridFrequency"} -> "currents"
      [] name \in {"detectedStringCount", "pvStrings"} -> "strings"
      [] name \in {"deviceStatus", "runningStatus", "internalTemperature",
                   "insulationResistance"} -> "status"
      [] name \in {"alarms", "faultCode"} -> "alarms"

\* remap block first, then the categories in their fixed order
BlockOrder ==
    <<"remap", "device", "power", "voltages", "currents", "strings", "status", "alarms">>

BlockRank(name) == CHOOSE k \in DOMAIN BlockOrder : BlockOrder[k] = ReadBlock(name)

RemapOrder == <<"remapPower", "remapStatus", "remapTemp", "remapFault">>

\* a sequence of issued reads follows the order: the remapped reads come
\* first and in their order, the blocks never go back
InBlockOrder(issued) ==
    /\ issued # <<>> => issued[1] = "remapPower"
    /\ \A k \in DOMAIN issued :
          ReadBlock(issued[k]) = "remap" => k <= 4 /\ issued[k] = RemapOrder[k]
    /\ \A k \in 1..(Len(issued) - 1) : BlockRank(issued[k]) <= BlockRank(issued[k + 1])

RECURSIVE Flattened(_)
Flattened(groups) ==
    IF groups = <<>> THEN <<>>
    ELSE ReadNames(groups[1]) \o Flattened(Tail(groups))

\* the reads that the running readInverterData has issued: the ones it awaits
\* and the ones it has stopped waiting for
OwnCalls == {id \in DOMAIN calls : Len(id) = 2 \/ id[3] = rd.di}

\* C32: for every category selection, the empty one included, readInverterData
\* issues the remap-block reads first and one at a time, issues a read only
\* when every read issued before has completed, so the first direct-register
\* read follows the last remap-block read, and visits the categories in the
\* order device, power, voltages, currents, strings, status, alarms, each
\* completing before the next starts.
C32_RemapFirstThenCategoriesInOrder ==
    /\ [](rd.di <= Len(rd.devices) =>
             /\ InBlockOrder(rd.issued)
             /\ \A id \in OwnCalls :
                   /\ calls[id].name \in RemapReads => OwnCalls = {id}
                   /\ \A other \in OwnCalls :
                         ReadBlock(calls[other].name) = ReadBlock(calls[id].name)
             /\ (rd.gi = 0 /\ rd.phase = "idle") =>
                   \A cats \in SUBSET Range(BlockOrder) :
                       LET all == ReadSchedule(rd.devices[rd.di], cats,
                                               PvGroups(rd.devices[rd.di], rd.result,
                                                        rd.stringCount))
                       IN /\ InBlockOrder(Flattened(all))
                          /\ Len(all) >= 4
                          /\ \A k \in 1..4 : ReadNames(all[k]) = <<RemapOrder[k]>>
                          /\ {ReadBlock(Flattened(all)[k]) : k \in 5..Len(Flattened(all))}
                                = cats \ {"remap"})
    /\ [][IssuesRequests => \A id \in OwnCalls : Completed(id)]_vars

\* readFromDiscovery of the inverter at unit 13 with 'currents' and
\* 'alarms': the four remapped reads, then the reads of the two categories
\* in the order of the code, the last of them in flight
C32_Witness ==
    /\ rd.unitIds = <<13>>
    /\ rd.phase = "wait"
    /\ rd.issued = <<"remapPower", "remapStatus", "remapTemp", "remapFault",
                     "phaseCurrents", "gridFrequency", "alarms", "faultCode">>
    /\ \E id \in DOMAIN calls : calls[id].name = "faultCode" /\ calls[id].pc = "wait"

\* ------------------------------------------ termination of parallel discovery
\* parallelScans is a number parameter without a minimum: the concurrency
\* values the configuration can supply include 0 and negative values
AnyConcurrencies == {-1, 0, 1, 2}

ParInitAny ==
    /\ client = (Main :> NewClient(3, DiscoveryRetries))
    /\ calls = <<>>
    /\ rd = [phase |-> "off"]
    /\ \E scan \in Scans, r \in {<<12>>, <<12, 13>>}, c \in AnyConcurrencies :
           par = [pc |-> "loop", scan |-> scan, unitRange |-> r,
                  concurrency |-> c, i |-> 0, discovered |-> <<>>]
    /\ task = <<>>

\* every connect and every transport read terminates, and the scan goes on
\* whenever it can
SpecParAny == ParInitAny /\ [][NextPar]_vars /\ WF_vars(NextPar)

\* C33: parallel discovery terminates for every finite unit range and every
\* integer concurrency value the configuration can supply, 0 and negative
\* values included, provided every connect and every transport read
\* terminates.
C33_ParallelDiscoveryTerminates == <>(par.pc = "done")

\* ----------------------------------------------------- unit id of the entries
\* C34: in the result of readMultipleInverters entry i's unitId equals
\* devices[i].unitId, for success records and error records alike, also for a
\* device whose deviceAddress differs from its unitId.
C34_EntryUnitIdIsDeviceUnitId ==
    \A i \in 1..Len(rd.results) : rd.results[i]["unitId"] = rd.unitIds[i]

\* ------------------------------------- sequential and parallel discovery agree
\* C35: for the same unit range and the same device responses sequential and
\* parallel discovery return the same DeviceInfo records, with the same field
\* values, the connection-status label included for every value of the status
\* register: the records the two build from the same four reads are equal.
C35_SameDeviceInfo ==
    (rd.phase = "codec" /\ rd.fn = "deviceInfo" /\ rd.applied) => rd.out = rd.other

\* ------------------------------------------------- detected string count
\* C36: when no string count is supplied and the string-count register is
\* read with value n >= 0, readPVStrings requests and returns at most n
\* strings; a device that reports 0 strings yields no PV string entries.
C36_AtMostReportedStrings ==
    (rd.pc \in {"loop", "wait", "done"} /\ rd.supplied = 0 /\ rd.reported >= 0) =>
        /\ RegistersRequested(rd.requests) <= 2 * rd.reported
        /\ Len(rd.strings) <= rd.reported

\* ------------------------------------ the caller's connection during the scan
\* C37: parallel discovery leaves the caller's shared connection unchanged:
\* it never connects it, never issues a read on it, and never changes its
\* active unit id or its configuration.
C37_SharedConnectionUnchanged ==
    /\ [](/\ \A id \in DOMAIN calls : id[1] # Main
          /\ ~client[Main].isConnected
          /\ ~client[Main].isOpen)
    /\ [][client'[Main] = client[Main]]_vars

\* the scan has returned a device found on a dedicated connection, and the
\* caller's connection is as it was constructed
C37_Witness ==
    /\ par.pc = "done"
    /\ par.discovered # <<>>
    /\ Dedicated # {}
    /\ client[Main] = NewClient(3, DiscoveryRetries)

\* ------------------------------------------------------------- Gateway reads
\* SmartLogger.execute: readData with its data categories, and readAll,
\* readSystem, readPower, readEnvironmental and readAlarms of the node's
\* other version: connect(), then readSystemData / readPowerData /
\* readEnvironmentalData / readAlarmData of SmartLoggerFunctions started
\* together; each starts all its reads at once on the one connection, with
\* the unit id of the reader.  readAll with includeInverters goes on with
\* discoverInverters() on the same connection, and discoverDevices of that
\* version runs discoverAllDevices(unitIds) and, with includeInverters,
\* discoverInverters(); the connection is disconnected when all is read.
\* With all four categories the reads are more than MaxReads, so readAll is
\* run with retries below 0, where no read makes an attempt.

\* the reads in the order they are started: the register type and the
\* divisor of result.data
GatewayHelper(category, field, address, read, gain) ==
    [category |-> category, field |-> field, address |-> address,
     read |-> read, gain |-> gain]

GatewayHelpers ==
    << GatewayHelper("system", "datetime", 40000, "U32", 1),
       GatewayHelper("system", "locationCity", 40002, "U32", 1),
       GatewayHelper("system", "dstEnable", 40004, "U16", 1),
       GatewayHelper("power", "dcCurrentTotal", 40500, "I16", 10),
       GatewayHelper("power", "inputPowerTotal", 40521, "U32", 1000),
       GatewayHelper("power", "co2Reduction", 40523, "U32", 10),
       GatewayHelper("power", "activePowerTotal", 40525, "I32", 1000),
       GatewayHelper("power", "reactivePowerTotal", 40544, "I32", 1000),
       GatewayHelper("power", "powerFactor", 40532, "I16", 1000),
       GatewayHelper("power", "plantStatus", 40543, "U16", 1),
       GatewayHelper("power", "plantStatusXinjiang", 40566, "U16", 1),
       GatewayHelper("power", "totalEnergy", 40560, "U32", 10),
       GatewayHelper("power", "dailyEnergy", 40562, "U32", 10),
       GatewayHelper("environmental", "windSpeed", 40031, "I16", 10),
       GatewayHelper("environmental", "windDirection", 40032, "I16", 1),
       GatewayHelper("environmental", "pvTemperature", 40033, "I16", 10),
       GatewayHelper("environmental", "ambientTemperature", 40034, "I16", 10),
       GatewayHelper("environmental", "irradiance", 40035, "I16", 10),
       GatewayHelper("environmental", "dailyIrradiation", 40036, "U32", 1000),
       GatewayHelper("alarms", "alarmInfo1", 50000, "U16", 1),
       GatewayHelper("alarms", "alarmInfo2", 50001, "U16", 1),
       GatewayHelper("alarms", "certificateAlarms", 50002, "U16", 1) >>

GatewayCategories == {"system", "power", "environmental", "alarms"}

\* the reads of the selected categories, as they are started
SelectedHelpers(categories) ==
    LET Selected(h) == h.category \in categories
    IN SelectSeq(GatewayHelpers, Selected)

parsePlantStatus(statusValue) ==
    CASE statusValue = 1 -> "Unlimited"
      [] statusValue = 2 -> "Limited"
      [] statusValue = 3 -> "Idle"
      [] statusValue = 4 -> "Outage"
      [] statusValue = 5 -> "Communication Interrupt"
      [] OTHER -> <<"Unknown", statusValue>>

\* the switch of readPlantStatusXinjiang
XinjiangStatus(statusValue) ==
    CASE statusValue = 0 -> "Idle"
      [] statusValue = 1 -> "On-grid"
      [] statusValue = 2 -> "On-grid with self-derating"
      [] statusValue = 3 -> "On-grid with power limit"
      [] statusValue = 4 -> "Planned outage"
      [] statusValue = 5 -> "Power limit outage"
      [] statusValue = 6 -> "Fault outage"
      [] statusValue = 7 -> "Communication interrupt"
      [] OTHER -> <<"Unknown", statusValue>>

\* what a helper makes of its returned read: null on failure, else the value
GatewayRead(h, c) ==
    CASE h.read = "U16" -> readU16Result(c)
      [] h.read = "I16" -> readI16Result(c)
      [] h.read = "U32" -> readU32Result(c)
      [] h.read = "I32" -> readI32Result(c)

GatewayValue(h, c) ==
    LET result == GatewayRead(h, c)
    IN CASE h.field = "dstEnable" -> result.data # 0
         [] h.field = "plantStatus" -> parsePlantStatus(result.data)
         [] h.field = "plantStatusXinjiang" -> XinjiangStatus(result.data)
         [] h.gain = 1 -> result.data
         [] OTHER -> Scaled(result.data, h.gain)

\* the object a category reader returns: the fields whose value is not null
CategoryData(category, helpers) ==
    LET set == {i \in 1..Len(helpers) :
                   /\ helpers[i].category = category
                   /\ GatewayRead(helpers[i], calls[<<Main, i>>]).success}
        Slot(field) == CHOOSE i \in set : helpers[i].field = field
    IN [field \in {helpers[i].field : i \in set} |->
           GatewayValue(helpers[Slot(field)], calls[<<Main, Slot(field)>>])]

\* the most reads that are in flight together with attempts to answer; with
\* retries below 0 no read makes an attempt
MaxReads == 10

GatewayUnit == 3

\* the operations that return the object of one category reader, and the
\* category each reads
CategoryOperations == {"readSystem", "readPower", "readEnvironmental", "readAlarms"}

OperationCategory(operation) ==
    CASE operation = "readSystem" -> "system"
      [] operation = "readPower" -> "power"
      [] operation = "readEnvironmental" -> "environmental"
      [] operation = "readAlarms" -> "alarms"

\* the unit ids parsed from the discoveryRange of discoverDevices
GatewayRanges == {<<12>>, <<13>>}

\* node parameters: operation, unit id, retries, and the data categories of
\* readData, includeInverters of readAll, which reads the four categories,
\* or the parsed discoveryRange and includeInverters of discoverDevices;
\* readSystem, readPower, readEnvironmental and readAlarms read their one
\* category and have no parameter includeInverters; the
\* reader has the unit id of the node, or with readData the 3 its
\* constructor defaults to
GwInit ==
    /\ calls = <<>>
    /\ \E operation \in {"readData", "readAll", "discoverDevices"} \cup CategoryOperations,
          includeInverters \in BOOLEAN,
          unitId \in {RemapUnit, GatewayUnit}, retries \in {-1, 0},
          categories \in SUBSET GatewayCategories, unitIds \in {<<>>} \cup GatewayRanges :
          /\ retries < 0 \/ Len(SelectedHelpers(categories)) <= MaxReads
          /\ operation = "readAll" => categories = GatewayCategories
          /\ operation \in {"readData"} \cup CategoryOperations => ~includeInverters
          /\ operation \in CategoryOperations
                => categories = {OperationCategory(operation)}
          /\ operation = "discoverDevices" => categories = {}
          /\ operation = "discoverDevices" <=> unitIds # <<>>
          /\ client = (Main :> NewClient(unitId, retries))
          /\ \E reader \in {unitId, GatewayUnit} :
             /\ operation # "readData" => reader = unitId
             /\ rd = [phase |-> "gateway", pc |-> "start", operation |-> operation,
                      includeInverters |-> includeInverters, unitId |-> reader,
                      categories |-> categories, unitIds |-> unitIds,
                      responseData |-> <<>>, success |-> FALSE]
    /\ par = [pc |-> "off"]
    /\ task = <<>>

\* connect() resolved true: the category readers are called one after the
\* other and every helper of theirs starts its read before the first await
\* hands control back
GwConnected ==
    /\ rd.phase = "gateway" /\ rd.pc = "start"
    /\ rd.operation # "discoverDevices"
    /\ LET helpers == SelectedHelpers(rd.categories)
           group == [i \in 1..Len(helpers) |->
                        NewCall(helpers[i].field, helpers[i].address,
                                IF helpers[i].read \in {"U32", "I32"} THEN 2 ELSE 1,
                                rd.unitId)]
           st == StartGroup(Main, group, 1,
                            [cl |-> Connected(client[Main]), cs |-> <<>>])
       IN /\ client' = [client EXCEPT ![Main] = st.cl]
          /\ calls' = st.cs
    /\ rd' = [rd EXCEPT !.pc = "wait"]
    /\ UNCHANGED <<par, task>>

\* connect() resolved false: 'Failed to connect to SmartLogger' is thrown,
\* the finally block disconnects
GwConnectFailed(closeRaises) ==
    /\ rd.phase = "gateway" /\ rd.pc = "start"
    /\ client' = [client EXCEPT
                     ![Main] = disconnect(ConnectFailed(@), closeRaises, FALSE)]
    /\ rd' = [rd EXCEPT !.pc = "failed"]
    /\ UNCHANGED <<calls, par, task>>

\* every Promise.all has resolved and the operation has no more to read:
\* the data of the categories under their names, or with readSystem,
\* readPower, readEnvironmental and readAlarms the object of the one category
\* reader itself, the metadata, and the disconnect of the finally block
GwJoin(closeRaises, stillOpen) ==
    /\ rd.phase = "gateway" /\ rd.pc = "wait" /\ AllReturned(Main)
    /\ ~rd.includeInverters
    /\ closeRaises \/ ~stillOpen
    /\ LET helpers == SelectedHelpers(rd.categories)
       IN rd' = [rd EXCEPT
                  !.pc = "done", !.success = TRUE,
                  !.responseData =
                      IF rd.operation \in CategoryOperations
                      THEN CategoryData(OperationCategory(rd.operation), helpers)
                      ELSE [category \in rd.categories |->
                               CategoryData(category, helpers)]]
    /\ calls' = WithCalls(CallsOf(Main), <<>>)
    /\ client' = [client EXCEPT ![Main] = disconnect(@, closeRaises, stillOpen)]
    /\ UNCHANGED <<par, task>>

\* the default unitRange of discoverInverters
InverterUnitRange == <<12, 13, 14, 15>>

\* a sequential scan of the node on its connection; the node's state is kept
\* until the scan returns
GatewayScan(scan, unitRange, node) ==
    [phase |-> "seq", pc |-> "loop", scan |-> scan, unitRange |-> unitRange,
     i |-> 0, nameRead |-> NoRead, discovered |-> <<>>, node |-> node]

\* the scan of the node has returned
ScanReturned(scan) ==
    /\ rd.phase = "seq" /\ rd.pc = "loop" /\ rd.i >= Len(rd.unitRange)
    /\ "node" \in DOMAIN rd
    /\ rd.scan = scan

\* readAll with includeInverters: readAllData() has resolved and
\* smartLogger.discoverInverters() starts its loop on the same connection
GwInverters ==
    /\ rd.phase = "gateway" /\ rd.pc = "wait" /\ AllReturned(Main)
    /\ rd.includeInverters
    /\ LET helpers == SelectedHelpers(rd.categories)
       IN rd' = GatewayScan("discoverInverters", InverterUnitRange,
                            [rd EXCEPT !.responseData =
                                          [category \in rd.categories |->
                                              CategoryData(category, helpers)]])
    /\ calls' = WithCalls(CallsOf(Main), <<>>)
    /\ UNCHANGED <<client, par, task>>

\* discoverDevices, connect() resolved true:
\* smartLogger.discoverAllDevices(unitIds) starts its loop
GwDiscover ==
    /\ rd.phase = "gateway" /\ rd.pc = "start"
    /\ rd.operation = "discoverDevices"
    /\ client' = [client EXCEPT ![Main] = Connected(@)]
    /\ rd' = GatewayScan("discoverAllDevices", rd.unitIds, rd)
    /\ UNCHANGED <<calls, par, task>>

\* discoverAllDevices returned to discoverDevices with includeInverters:
\* responseData.allDevices, and smartLogger.discoverInverters() starts
GwAllDevicesInverters ==
    /\ ScanReturned("discoverAllDevices")
    /\ rd.node.includeInverters
    /\ rd' = GatewayScan("discoverInverters", InverterUnitRange,
                         [rd.node EXCEPT !.responseData = ("allDevices" :> rd.discovered)])
    /\ UNCHANGED <<client, calls, par, task>>

\* discoverAllDevices returned to discoverDevices without includeInverters:
\* responseData.allDevices, the metadata, and the disconnect of the finally
\* block
GwAllDevicesJoin(closeRaises, stillOpen) ==
    /\ ScanReturned("discoverAllDevices")
    /\ ~rd.node.includeInverters
    /\ closeRaises \/ ~stillOpen
    /\ rd' = [rd.node EXCEPT !.pc = "done", !.success = TRUE,
                             !.responseData = ("allDevices" :> rd.discovered)]
    /\ client' = [client EXCEPT ![Main] = disconnect(@, closeRaises, stillOpen)]
    /\ UNCHANGED <<calls, par, task>>

\* discoverInverters returned: responseData.connectedInverters of readAll or
\* responseData.inverters of discoverDevices, the metadata, and the
\* disconnect of the finally block
GwInvertersJoin(closeRaises, stillOpen) ==
    /\ ScanReturned("discoverInverters")
    /\ closeRaises \/ ~stillOpen
    /\ LET key == IF rd.node.operation = "readAll" THEN "connectedInverters"
                  ELSE "inverters"
       IN rd' = [rd.node EXCEPT !.pc = "done", !.success = TRUE,
                                !.responseData = (key :> rd.discovered) @@ @]
    /\ client' = [client EXCEPT ![Main] = disconnect(@, closeRaises, stillOpen)]
    /\ UNCHANGED <<calls, par, task>>

NextGw ==
    \/ GwConnected
    \/ \E closeRaises \in BOOLEAN : GwConnectFailed(closeRaises)
    \/ \E closeRaises, stillOpen \in BOOLEAN : GwJoin(closeRaises, stillOpen)
    \/ GwInverters
    \/ GwDiscover
    \/ GwAllDevicesInverters
    \/ \E closeRaises, stillOpen \in BOOLEAN : GwAllDevicesJoin(closeRaises, stillOpen)
    \/ SeqName
    \/ \E raises \in BOOLEAN : SeqNameJoin(raises)
    \/ SeqInfoJoin
    \/ \E closeRaises, stillOpen \in BOOLEAN : GwInvertersJoin(closeRaises, stillOpen)
    \/ \E id \in DOMAIN calls :
          \E words \in ResponseData(calls[id].sentTo, calls[id].address, calls[id].count) :
              RespOk(id, words)
    \/ \E id \in DOMAIN calls, closes \in BOOLEAN : RespFail(id, closes)
    \/ \E id \in DOMAIN calls : ConnectOk(id)
    \/ \E id \in DOMAIN calls : ConnectFail(id)

SpecGw == GwInit /\ [][NextGw]_vars

\* the reads of the selected categories are all started before any returns
\* an answer, to the unit of the reader, and the unit id of the connection
\* is the configured one again when all have returned
GatewayReadsTogether ==
    rd.phase = "gateway" =>
        /\ rd.pc = "wait" =>
              /\ DOMAIN calls = {<<Main, i>> : i \in 1..Len(SelectedHelpers(rd.categories))}
              /\ \A id \in DOMAIN calls :
                    /\ calls[id].unit = rd.unitId
                    /\ calls[id].pc = "wait" => calls[id].sentTo = rd.unitId
              /\ AllReturned(Main) => client[Main].activeId = client[Main].unitId
        /\ rd.pc = "done" =>
              \A category \in rd.categories :
                 DOMAIN (IF rd.operation \in CategoryOperations THEN rd.responseData
                         ELSE rd.responseData[category])
                    \subseteq {GatewayHelpers[i].field :
                                  i \in {j \in 1..Len(GatewayHelpers) :
                                            GatewayHelpers[j].category = category}}

====
